---- MODULE Spec2Model ----
(***************************************************************************)
(* The alignment engine of Omic-Network (idalign): scope normalisation,    *)
(* cross-reference classification, the union-find build, type resolution   *)
(* and the materialisation of an AlignmentResult, as the state machine of  *)
(* one call of match_references.                                           *)
(*                                                                         *)
(* A Python str is a sequence of one-character strings, so that lower(),   *)
(* strip(), startswith(), split() and the ordering used by sorted() are    *)
(* computed, not assumed.  A Python dict is a function whose DOMAIN is the *)
(* dict's key set.                                                         *)
(***************************************************************************)
EXTENDS Integers, Sequences, FiniteSets, TLC

(***************************************************************************)
(* Python values                                                           *)
(***************************************************************************)
\* Python's None: a one-element tuple that is no character sequence.
None == <<"None">>

\* bool(x) for x a str or None: None and "" are falsy.
Truthy(x) == x # None /\ x # << >>

\* d.get(k) and d.get(k, default) of a dict.
Get(d, k) == IF k \in DOMAIN d THEN d[k] ELSE None

GetOr(d, k, default) == IF k \in DOMAIN d THEN d[k] ELSE default

\* d[k] = v of a dict (insert or overwrite).
Put(d, k, v) == [x \in DOMAIN d \cup {k} |-> IF x = k THEN v ELSE d[x]]

\* The empty dict.
EmptyDict == << >>

\* How a call ends: it returns a value or it raises.
Return(v) == [raised |-> "", ret |-> v]

Raise(exception) == [raised |-> exception, ret |-> None]

\* The characters of the model's strings in ascending code point order.
CodeOrder == <<"\t", " ", "-", ".", "/",
               "0", "1", "2", "3", "4", "5", "6", "7", "8", "9", ":",
               "A", "B", "C", "D", "E", "F", "G", "H", "I", "J", "K", "L", "M",
               "N", "O", "P", "Q", "R", "S", "T", "U", "V", "W", "X", "Y", "Z",
               "_",
               "a", "b", "c", "d", "e", "f", "g", "h", "i", "j", "k", "l", "m",
               "n", "o", "p", "q", "r", "s", "t", "u", "v", "w", "x", "y", "z">>

\* ord(c), up to a monotone renumbering.
Ord(c) == CHOOSE i \in 1..Len(CodeOrder) : CodeOrder[i] = c

UpperCase == <<"A", "B", "C", "D", "E", "F", "G", "H", "I", "J", "K", "L", "M",
               "N", "O", "P", "Q", "R", "S", "T", "U", "V", "W", "X", "Y", "Z">>

LowerCase == <<"a", "b", "c", "d", "e", "f", "g", "h", "i", "j", "k", "l", "m",
               "n", "o", "p", "q", "r", "s", "t", "u", "v", "w", "x", "y", "z">>

Whitespace == {" ", "\t"}

\* str.lower()
LowerChar(c) ==
    IF \E i \in 1..Len(UpperCase) : UpperCase[i] = c
    THEN LowerCase[CHOOSE i \in 1..Len(UpperCase) : UpperCase[i] = c]
    ELSE c

Lower(s) == [i \in 1..Len(s) |-> LowerChar(s[i])]

\* str.strip()
RECURSIVE LStrip(_)
LStrip(s) == IF s # << >> /\ Head(s) \in Whitespace THEN LStrip(Tail(s)) ELSE s

RECURSIVE RStrip(_)
RStrip(s) ==
    IF s # << >> /\ s[Len(s)] \in Whitespace
    THEN RStrip(SubSeq(s, 1, Len(s) - 1))
    ELSE s

Strip(s) == RStrip(LStrip(s))

\* c in s, for a character c
HasChar(s, c) == \E i \in 1..Len(s) : s[i] = c

\* s.startswith(p)
StartsWith(s, p) == Len(s) >= Len(p) /\ SubSeq(s, 1, Len(p)) = p

\* s.split(c, 1)[1] for s that contains c: what follows the first c.
AfterFirst(s, c) ==
    LET i == CHOOSE j \in 1..Len(s) :
                 s[j] = c /\ \A k \in 1..(j - 1) : s[k] # c
    IN  SubSeq(s, i + 1, Len(s))

\* s < t of two str (lexicographic by code point).
RECURSIVE StrLess(_, _)
StrLess(s, t) ==
    IF t = << >> THEN FALSE
    ELSE IF s = << >> THEN TRUE
    ELSE IF Head(s) # Head(t) THEN Ord(Head(s)) < Ord(Head(t))
    ELSE StrLess(Tail(s), Tail(t))

\* a < b of two (scope, identifier) tuples.
KeyLess(a, b) == IF a[1] # b[1] THEN StrLess(a[1], b[1]) ELSE StrLess(a[2], b[2])

\* The pair as it would be if the two keys stayed in the order given.
UnsortedPair(a, b) == <<a, b>>

\* sorted((a, b))
SortedPair(a, b) == IF KeyLess(b, a) THEN <<b, a>> ELSE <<a, b>>

(***************************************************************************)
(* identifiers.py: the entity types and predicates the tagger names        *)
(***************************************************************************)
s_unknown == <<"u", "n", "k", "n", "o", "w", "n">>

s_dna == <<"d", "n", "a">>

s_gene == <<"g", "e", "n", "e">>

s_protein == <<"p", "r", "o", "t", "e", "i", "n">>

s_metabolite == <<"m", "e", "t", "a", "b", "o", "l", "i", "t", "e">>

s_study == <<"s", "t", "u", "d", "y">>

s_produced_by == <<"p", "r", "o", "d", "u", "c", "e", "d", "_", "b", "y">>

s_contains == <<"c", "o", "n", "t", "a", "i", "n", "s">>

s_modification == <<"m", "o", "d", "i", "f", "i", "c", "a", "t", "i", "o", "n">>

s_has_feature == <<"h", "a", "s", "_", "f", "e", "a", "t", "u", "r", "e">>

s_product == <<"p", "r", "o", "d", "u", "c", "t">>

s_part_of == <<"p", "a", "r", "t", "_", "o", "f">>

(***************************************************************************)
(* tagger.py                                                               *)
(***************************************************************************)
AliasNamespaces ==
    { <<"a", "s", "a", "p">>, <<"e", "c", "o", "c", "y", "c">>, <<"g", "e", "n", "e", "i", "d">>, <<"i", "d">>, <<"k", "e", "g", "g", ".", "c", "o", "m", "p", "o", "u", "n", "d">>, <<"n", "a", "m", "e">>,
      <<"r", "e", "f", "m", "e", "t">>, <<"w", "o", "r", "k", "b", "e", "n", "c", "h">>, <<"a", "l", "i", "a", "s">>, <<"g", "e", "n", "e">>, <<"l", "o", "c", "u", "s", "_", "t", "a", "g">>, <<"r", "u", "n">>, <<"s", "r", "x">> }

RelationNamespaces ==
    { <<"g", "e", "o">>, <<"g", "e", "n", "o", "t", "y", "p", "e">>, s_modification, s_produced_by, s_contains,
      s_has_feature, s_product, <<"p", "r", "o", "d", "u", "c", "t", "_", "l", "a", "b", "e", "l">>, <<"p", "r", "o", "t", "e", "i", "n", "_", "i", "d">>,
      <<"u", "n", "i", "p", "r", "o", "t", "k", "b", "/", "s", "w", "i", "s", "s", "-", "p", "r", "o", "t">>, <<"p", "a", "r", "e", "n", "t">>, <<"g", "e", "n", "b", "a", "n", "k">> }

\* TYPE_MAP.  The module binds the name twice to the same table; the second
\* binding is the one in force.
TYPE_MAP ==
    [ns \in AliasNamespaces \cup RelationNamespaces |->
        IF ns \in AliasNamespaces THEN "alias" ELSE "relation"]

\* _REL_TYPE_MAP: a rule is a constant type, the identity or the produced_by
\* conditional.
REL_TYPE_MAP ==
    ( <<"p", "r", "o", "t", "e", "i", "n", "_", "i", "d">>           :> [kind |-> "const", type |-> s_protein] ) @@
    ( <<"u", "n", "i", "p", "r", "o", "t", "k", "b", "/", "s", "w", "i", "s", "s", "-", "p", "r", "o", "t">> :> [kind |-> "const", type |-> s_protein] ) @@
    ( <<"k", "e", "g", "g", ".", "c", "o", "m", "p", "o", "u", "n", "d">>        :> [kind |-> "const", type |-> s_metabolite] ) @@
    ( s_modification          :> [kind |-> "identity", type |-> None] ) @@
    ( <<"p", "a", "r", "e", "n", "t">>               :> [kind |-> "const", type |-> s_dna] ) @@
    ( s_contains              :> [kind |-> "identity", type |-> None] ) @@
    ( s_produced_by           :> [kind |-> "gene_to_protein", type |-> None] ) @@
    ( <<"p", "r", "o", "d", "u", "c", "t", "_", "l", "a", "b", "e", "l">>        :> [kind |-> "const", type |-> s_protein] ) @@
    ( s_product               :> [kind |-> "const", type |-> s_protein] ) @@
    ( <<"g", "e", "o">>                  :> [kind |-> "const", type |-> s_study] )

REGISTRY_NS ==
    { <<"g", "e", "n", "e", "i", "d">>, <<"u", "n", "i", "p", "r", "o", "t">>, <<"u", "n", "i", "p", "r", "o", "t", "k", "b">>, <<"e", "n", "s", "e", "m", "b", "l">>, <<"r", "e", "f", "s", "e", "q">>, <<"e", "c", "o", "c", "y", "c">>,
      <<"a", "s", "a", "p">>, <<"c", "h", "e", "b", "i">>, <<"k", "e", "g", "g">>, <<"h", "m", "d", "b">>, <<"p", "u", "b", "c", "h", "e", "m">>, <<"g", "e", "n", "b", "a", "n", "k", "_", "r", "e", "f", "e", "r", "e", "n", "c", "e">>,
      <<"r", "e", "f", "s", "e", "q", ".", "l", "o", "c", "u", "s", "_", "t", "a", "g">>, <<"k", "e", "g", "g", ".", "c", "o", "m", "p", "o", "u", "n", "d">> }

LOCAL_NS ==
    { <<"g", "e", "n", "e">>, <<"g", "e", "n", "e", "_", "n", "a", "m", "e">>, <<"g", "e", "n", "e", "_", "s", "y", "m", "b", "o", "l">>, <<"s", "y", "m", "b", "o", "l">>, <<"s", "y", "n", "o", "n", "y", "m">>,
      <<"g", "e", "n", "e", "_", "s", "y", "n", "o", "n", "y", "m">>, <<"l", "o", "c", "u", "s", "_", "t", "a", "g">>, <<"n", "a", "m", "e">>, <<"i", "d">>, <<"w", "o", "r", "k", "b", "e", "n", "c", "h">> }

REL_NS_TO_REGISTRY ==
    ( <<"u", "n", "i", "p", "r", "o", "t", "k", "b", "/", "s", "w", "i", "s", "s", "-", "p", "r", "o", "t">> :> <<"u", "n", "i", "p", "r", "o", "t">> ) @@
    ( <<"p", "r", "o", "t", "e", "i", "n", "_", "i", "d">>           :> s_protein ) @@
    ( <<"g", "e", "n", "b", "a", "n", "k">>              :> s_dna ) @@
    ( <<"p", "a", "r", "e", "n", "t">>               :> s_dna ) @@
    ( s_contains              :> s_dna ) @@
    ( s_modification          :> s_metabolite ) @@
    ( s_produced_by           :> s_protein ) @@
    ( <<"p", "r", "o", "d", "u", "c", "t", "_", "l", "a", "b", "e", "l">>        :> s_protein )

REL_NS_TO_PREDICATE ==
    ( <<"u", "n", "i", "p", "r", "o", "t", "k", "b", "/", "s", "w", "i", "s", "s", "-", "p", "r", "o", "t">> :> s_product ) @@
    ( <<"p", "r", "o", "t", "e", "i", "n", "_", "i", "d">>           :> s_product ) @@
    ( s_produced_by           :> s_produced_by ) @@
    ( <<"p", "r", "o", "d", "u", "c", "t", "_", "l", "a", "b", "e", "l">>        :> s_product ) @@
    ( <<"p", "a", "r", "e", "n", "t">>               :> s_part_of ) @@
    ( s_contains              :> s_contains ) @@
    ( <<"g", "e", "n", "b", "a", "n", "k">>              :> s_contains ) @@
    ( s_modification          :> s_modification )

\* tag_record as it would be if a namespace the table does not hold counted
\* as a relation.
tag_record_default_relation(namespace) ==
    IF Lower(namespace) \notin DOMAIN TYPE_MAP THEN "relation"
    ELSE TYPE_MAP[Lower(namespace)]

tag_record(namespace) ==
    IF Lower(namespace) \notin DOMAIN TYPE_MAP
    THEN "unclassified"
    ELSE TYPE_MAP[Lower(namespace)]

derive_type(namespace, source_type) ==
    LET rule == REL_TYPE_MAP[Lower(namespace)]
    IN  IF Lower(namespace) \notin DOMAIN REL_TYPE_MAP THEN s_unknown
        ELSE IF rule.kind = "identity" THEN source_type
        ELSE IF rule.kind = "gene_to_protein"
             THEN (IF source_type = s_gene THEN s_protein ELSE s_unknown)
        ELSE rule.type

\* normalize_feature_scope as it would be without the local-label rule.
normalize_feature_scope_no_local(od, ns) ==
    LET n == Lower(Strip(IF Truthy(ns) THEN ns ELSE << >>))
    IN  IF n = << >> THEN Lower(Strip(od.name)) ELSE n

\* normalize_feature_scope as it would be if a namespace that is neither a
\* registry nor a local label fell back to the dataset's scope.
normalize_feature_scope_others_local(od, ns) ==
    LET n == Lower(Strip(IF Truthy(ns) THEN ns ELSE << >>))
    IN  IF n = << >> THEN Lower(Strip(od.name))
        ELSE IF n \in REGISTRY_NS \/ HasChar(n, ".") THEN n
        ELSE Lower(Strip(od.name))

\* normalize_feature_scope as it would be if it compared and returned the
\* namespace as it is spelled.
normalize_feature_scope_as_spelled(od, ns) ==
    LET n == IF Truthy(ns) THEN ns ELSE << >>
    IN  IF n = << >> THEN Lower(Strip(od.name))
        ELSE IF n \in REGISTRY_NS \/ HasChar(n, ".") THEN n
        ELSE IF n \in LOCAL_NS THEN Lower(Strip(od.name))
        ELSE n

\* ns is the namespace of a feature or column record, or None.
normalize_feature_scope(od, ns) ==
    LET n == Lower(Strip(IF Truthy(ns) THEN ns ELSE << >>))
    IN  IF n = << >> THEN Lower(Strip(od.name))
        ELSE IF n \in REGISTRY_NS \/ HasChar(n, ".") THEN n
        ELSE IF n \in LOCAL_NS THEN Lower(Strip(od.name))
        ELSE n

db_xref_prefix == <<"d", "b", "_", "x", "r", "e", "f", ":">>

\* alias_target_scope as it would be without the registry rule.
alias_target_scope_no_registry(rel_ns, src_scope, fallback) ==
    LET ns == Lower(IF Truthy(rel_ns) THEN rel_ns ELSE << >>)
    IN  IF StartsWith(ns, db_xref_prefix)
        THEN (IF AfterFirst(ns, ":") # << >> THEN AfterFirst(ns, ":") ELSE fallback)
        ELSE IF ns \in LOCAL_NS THEN src_scope
        ELSE fallback

\* alias_target_scope as it would be if a local label fell back like any
\* other namespace.
alias_target_scope_local_falls_back(rel_ns, src_scope, fallback) ==
    LET ns == Lower(IF Truthy(rel_ns) THEN rel_ns ELSE << >>)
    IN  IF StartsWith(ns, db_xref_prefix)
        THEN (IF AfterFirst(ns, ":") # << >> THEN AfterFirst(ns, ":") ELSE fallback)
        ELSE IF ns \in REGISTRY_NS THEN ns
        ELSE fallback

alias_target_scope(rel_ns, src_scope, fallback) ==
    LET ns == Lower(IF Truthy(rel_ns) THEN rel_ns ELSE << >>)
    IN  IF StartsWith(ns, db_xref_prefix)
        THEN (IF AfterFirst(ns, ":") # << >> THEN AfterFirst(ns, ":") ELSE fallback)
        ELSE IF ns \in REGISTRY_NS THEN ns
        ELSE IF ns \in LOCAL_NS THEN src_scope
        ELSE fallback

relation_target_scope(rel_ns, fallback) ==
    LET ns == Lower(IF Truthy(rel_ns) THEN rel_ns ELSE << >>)
    IN  IF ns \in DOMAIN REL_NS_TO_REGISTRY THEN REL_NS_TO_REGISTRY[ns]
        ELSE IF ns \in REGISTRY_NS THEN ns
        ELSE IF StartsWith(ns, db_xref_prefix)
        THEN (IF AfterFirst(ns, ":") # << >> THEN AfterFirst(ns, ":") ELSE fallback)
        ELSE fallback

(***************************************************************************)
(* union_find.py                                                           *)
(***************************************************************************)
\* UnionFind(): a uf is [parent |-> dict, rank |-> dict].
UnionFindInit == [parent |-> EmptyDict, rank |-> EmptyDict]

\* find as it would be if it returned an unseen key without inserting it.
find_no_insert(uf, x) ==
    IF x \notin DOMAIN uf.parent THEN [root |-> x, uf |-> uf]
    ELSE LET RECURSIVE up(_, _)
             up(u, k) == IF u.parent[k] = k THEN k ELSE up(u, u.parent[k])
         IN  [root |-> up(uf, x),
              uf   |-> [parent |-> Put(uf.parent, x, up(uf, x)), rank |-> uf.rank]]

\* UnionFind.find with its lazy insert and its path compression; the result
\* is the returned root and the structure as the call leaves it.
RECURSIVE find(_, _)
find(uf, x) ==
    IF x \notin DOMAIN uf.parent
    THEN [root |-> x,
          uf   |-> [parent |-> Put(uf.parent, x, x), rank |-> Put(uf.rank, x, 0)]]
    ELSE IF uf.parent[x] # x
    THEN LET r == find(uf, uf.parent[x])
         IN  [root |-> r.root,
              uf   |-> [parent |-> Put(r.uf.parent, x, r.root), rank |-> r.uf.rank]]
    ELSE [root |-> x, uf |-> uf]

\* union as it would be if it re-parented the argument a instead of a's root.
union_reparent(uf, a, b) ==
    LET fa == find(uf, a)
        fb == find(fa.uf, b)
        u  == fb.uf
    IN  IF fa.root = fb.root THEN u
        ELSE [parent |-> Put(u.parent, a, fb.root), rank |-> u.rank]

\* union as it would be if b's root always went under a's root, whatever the
\* ranks.
union_first_wins(uf, a, b) ==
    LET fa == find(uf, a)
        fb == find(fa.uf, b)
        ra == fa.root
        rb == fb.root
        u  == fb.uf
        rank_a == GetOr(u.rank, ra, 0)
        rank_b == GetOr(u.rank, rb, 0)
    IN  IF ra = rb THEN u
        ELSE IF rank_a = rank_b
        THEN [parent |-> Put(u.parent, rb, ra), rank |-> Put(u.rank, ra, rank_a + 1)]
        ELSE [parent |-> Put(u.parent, rb, ra), rank |-> u.rank]

\* union as it would be if joining two roots of equal rank left the rank of
\* the new root as it was.
union_keeps_rank(uf, a, b) ==
    LET fa == find(uf, a)
        fb == find(fa.uf, b)
        ra == fa.root
        rb == fb.root
        u  == fb.uf
        rank_a == GetOr(u.rank, ra, 0)
        rank_b == GetOr(u.rank, rb, 0)
    IN  IF ra = rb THEN u
        ELSE IF rank_a < rank_b
        THEN [parent |-> Put(u.parent, ra, rb), rank |-> u.rank]
        ELSE [parent |-> Put(u.parent, rb, ra), rank |-> u.rank]

\* UnionFind.union: union by rank.
union(uf, a, b) ==
    LET fa == find(uf, a)
        fb == find(fa.uf, b)
        ra == fa.root
        rb == fb.root
        u  == fb.uf
        rank_a == GetOr(u.rank, ra, 0)
        rank_b == GetOr(u.rank, rb, 0)
    IN  IF ra = rb THEN u
        ELSE IF rank_a < rank_b
        THEN [parent |-> Put(u.parent, ra, rb), rank |-> u.rank]
        ELSE IF rank_a > rank_b
        THEN [parent |-> Put(u.parent, rb, ra), rank |-> u.rank]
        ELSE [parent |-> Put(u.parent, rb, ra), rank |-> Put(u.rank, ra, rank_a + 1)]

(***************************************************************************)
(* aligner.py                                                              *)
(***************************************************************************)
\* key(scope, ident): both arguments are str already, so str() keeps them.
key(scope, ident) == <<scope, Strip(ident)>>

\* id_type.get(k) or inferred.get(k)
KnownType(k, idt, inferred) ==
    IF Truthy(Get(idt, k)) THEN Get(idt, k) ELSE Get(inferred, k)

alias_ok(a, b, idt, inferred) ==
    LET ta == KnownType(a, idt, inferred)
        tb == KnownType(b, idt, inferred)
    IN  IF ta = None /\ tb = None THEN FALSE
        ELSE ta = None \/ tb = None \/ ta = tb

\* Stage 1.  One pass of the loop body over the records of one of a
\* dataset's two metadata lists; acc is [feat_scope, id_type].
RECURSIVE CollectRecords(_, _, _)
CollectRecords(od, recs, acc) ==
    IF recs = << >> THEN acc
    ELSE LET f     == Head(recs)
             scope == normalize_feature_scope(od, f.namespace)
             fs    == Put(acc.feat_scope, <<od.name, f.id>>, scope)
             it    == IF Truthy(f.entity)
                      THEN Put(acc.id_type, key(scope, f.id), f.entity)
                      ELSE acc.id_type
         IN  CollectRecords(od, Tail(recs), [feat_scope |-> fs, id_type |-> it])

RECURSIVE CollectDatasets(_, _)
CollectDatasets(ods, acc) ==
    IF ods = << >> THEN acc
    ELSE LET od == Head(ods)
         IN  CollectDatasets(Tail(ods),
                 CollectRecords(od, od.column_meta,
                     CollectRecords(od, od.feature_meta, acc)))

\* "for f in od.<attr>": the exception it raises, or "" when the attribute is
\* there and is a list.  A dataset without the attribute has no such field;
\* None is no list.
IterError(od, attr) ==
    IF attr \notin DOMAIN od THEN "AttributeError"
    ELSE IF ToString(od[attr]) = ToString(None) THEN "TypeError"
    ELSE ""

\* The exception that ends the loops of collect_feature_scopes_and_types,
\* which read feature_meta and then column_meta of each dataset in turn, or "".
RECURSIVE CollectError(_)
CollectError(ods) ==
    IF ods = << >> THEN ""
    ELSE IF IterError(Head(ods), "feature_meta") # ""
    THEN IterError(Head(ods), "feature_meta")
    ELSE IF IterError(Head(ods), "column_meta") # ""
    THEN IterError(Head(ods), "column_meta")
    ELSE CollectError(Tail(ods))

collect_feature_scopes_and_types(ods) ==
    CollectDatasets(ods, [feat_scope |-> EmptyDict, id_type |-> EmptyDict])

\* Stage 2.  The loop body for one cross-reference cr of dataset od; acc is
\* [alias_edges, rel_edges, unknown_edges, inferred_type].
IngestRecord(od, cr, fscope, idt, acc) ==
    LET ds_default_scope == normalize_feature_scope(od, None)
        src_raw == Strip(cr.src)
        tgt_raw == Strip(cr.target)
        rel_ns  == Strip(Lower(cr.namespace))
        tag     == tag_record(rel_ns)
        s_src   == GetOr(fscope, <<od.name, src_raw>>, ds_default_scope)
        s_tgt_fb == GetOr(fscope, <<od.name, tgt_raw>>, ds_default_scope)
    IN  IF tag = "alias"
        THEN LET s_tgt == alias_target_scope(rel_ns, s_src, s_tgt_fb)
                 k_src == key(s_src, src_raw)
                 k_tgt == key(s_tgt, tgt_raw)
                 ts    == Get(idt, k_src)
                 tt    == Get(idt, k_tgt)
                 inf1  == IF Truthy(ts) /\ k_tgt \notin DOMAIN idt
                          THEN Put(acc.inferred_type, k_tgt, ts)
                          ELSE acc.inferred_type
                 inf2  == IF Truthy(tt) /\ k_src \notin DOMAIN idt
                          THEN Put(inf1, k_src, tt)
                          ELSE inf1
             IN  [acc EXCEPT !.inferred_type = inf2,
                             !.alias_edges = @ \cup {SortedPair(k_src, k_tgt)}]
        ELSE LET s_tgt == relation_target_scope(rel_ns, s_tgt_fb)
                 k_src == key(s_src, src_raw)
                 k_tgt == key(s_tgt, tgt_raw)
             IN  IF tag = "relation"
                 THEN LET predicate == GetOr(REL_NS_TO_PREDICATE, rel_ns, rel_ns)
                          src_t == GetOr(idt, k_src, s_unknown)
                          tgt_t == derive_type(rel_ns, src_t)
                      IN  [acc EXCEPT
                             !.inferred_type =
                                 IF k_tgt \notin DOMAIN idt /\ tgt_t # s_unknown
                                 THEN Put(@, k_tgt, tgt_t) ELSE @,
                             !.rel_edges = Append(@, <<k_src, predicate, k_tgt>>)]
                 ELSE [acc EXCEPT
                             !.unknown_edges = Append(@, <<k_src, rel_ns, k_tgt>>)]

RECURSIVE IngestRecords(_, _, _, _, _)
IngestRecords(od, crs, fscope, idt, acc) ==
    IF crs = << >> THEN acc
    ELSE IngestRecords(od, Tail(crs), fscope, idt,
                       IngestRecord(od, Head(crs), fscope, idt, acc))

RECURSIVE IngestDatasets(_, _, _, _)
IngestDatasets(ods, fscope, idt, acc) ==
    IF ods = << >> THEN acc
    ELSE IngestDatasets(Tail(ods), fscope, idt,
                        IngestRecords(Head(ods), Head(ods).cross_ref, fscope, idt, acc))

ingest_cross_refs(ods, fscope, idt) ==
    IngestDatasets(ods, fscope, idt,
                   [alias_edges |-> {}, rel_edges |-> << >>,
                    unknown_edges |-> << >>, inferred_type |-> EmptyDict])

\* Stage 3.  touch(k) inside build_union_find; st is [uf, all_keys].
touch(st, k) == [uf |-> find(st.uf, k).uf, all_keys |-> st.all_keys \cup {k}]

\* The loop body as it would be if the union named one endpoint twice.
BuildAliasSelfUnion(st, e, idt, inferred) ==
    LET t == touch(touch(st, e[1]), e[2])
    IN  IF alias_ok(e[1], e[2], idt, inferred)
        THEN [t EXCEPT !.uf = union(t.uf, e[1], e[1])]
        ELSE t

\* The body of the loop over alias_edges for one edge.
BuildAlias(st, e, idt, inferred) ==
    LET t == touch(touch(st, e[1]), e[2])
    IN  IF alias_ok(e[1], e[2], idt, inferred)
        THEN [t EXCEPT !.uf = union(t.uf, e[1], e[2])]
        ELSE t

\* build_union_find's second loop as it would be if it touched only the
\* source of each relation edge.
RECURSIVE BuildRelationsSourceOnly(_, _)
BuildRelationsSourceOnly(st, rels) ==
    IF rels = << >> THEN st
    ELSE BuildRelationsSourceOnly(touch(st, Head(rels)[1]), Tail(rels))

\* build_union_find as it would be without its loop over rel_edges.
BuildRelationsUntouched(st, rels) == st

\* The loop over rel_edges.
RECURSIVE BuildRelations(_, _)
BuildRelations(st, rels) ==
    IF rels = << >> THEN st
    ELSE BuildRelations(touch(touch(st, Head(rels)[1]), Head(rels)[3]), Tail(rels))

\* Stage 4.  uf.find over a set of keys: the order of the calls changes
\* neither the roots nor the compressed structure they leave.
RECURSIVE FindAll(_, _)
FindAll(u, ks) ==
    IF ks = {} THEN u
    ELSE LET k == CHOOSE x \in ks : TRUE
         IN  FindAll(find(u, k).uf, ks \ {k})

\* resolve_component_types as it would be if it took any one known type of a
\* group, also when the members disagree.
resolve_any_known(u, keys, idt, inferred) ==
    LET members(r) == {m \in keys : find(u, m).root = r}
        known(r)   == {KnownType(m, idt, inferred) : m \in members(r)} \ {None}
        ty(r)      == IF known(r) # {}
                      THEN CHOOSE t \in known(r) : TRUE
                      ELSE s_unknown
    IN  [m \in keys |-> ty(find(u, m).root)]

\* resolve_component_types as it would be if each member kept its own hint.
resolve_own_type(u, keys, idt, inferred) ==
    [m \in keys |-> IF KnownType(m, idt, inferred) # None
                    THEN KnownType(m, idt, inferred)
                    ELSE s_unknown]

resolve_component_types(u, keys, idt, inferred) ==
    LET members(r) == {m \in keys : find(u, m).root = r}
        known(r)   == {KnownType(m, idt, inferred) : m \in members(r)} \ {None}
        ty(r)      == IF Cardinality(known(r)) = 1
                      THEN CHOOSE t \in known(r) : TRUE
                      ELSE s_unknown
    IN  [m \in keys |-> ty(find(u, m).root)]

\* gid_for as it would be if every lookup took a fresh id off the counter,
\* also for a root that has its id.
gid_for_counts_lookups(m, k) ==
    LET f == find(m.uf, k)
    IN  IF f.root \notin DOMAIN m.roots
        THEN [m EXCEPT !.uf = f.uf,
                       !.roots = Put(@, f.root, m.next_gid),
                       !.next_gid = @ + 1]
        ELSE [m EXCEPT !.uf = f.uf, !.next_gid = @ + 1]

\* Stage 5.  gid_for(k) inside materialize_alignment; m is the record of the
\* function's locals, and the result adds the returned gid.
gid_for(m, k) ==
    LET f == find(m.uf, k)
    IN  IF f.root \notin DOMAIN m.roots
        THEN [m EXCEPT !.uf = f.uf,
                       !.roots = Put(@, f.root, m.next_gid),
                       !.next_gid = @ + 1]
        ELSE [m EXCEPT !.uf = f.uf]

GidOf(m, k) == m.roots[find(m.uf, k).root]

Node(identifier, type, namespace) ==
    [identifier |-> identifier, type |-> type, namespace |-> namespace]

\* The body of the loop over all_keys for one key.
MaterializeNode(m, ksid, ftype) ==
    LET n   == Node(ksid[2], GetOr(ftype, ksid, s_unknown), ksid[1])
        m2  == gid_for(m, ksid)
        gid == GidOf(m2, ksid)
    IN  [m2 EXCEPT !.node_to_gid = Put(@, n, gid),
                   !.groups = Put(@, gid, GetOr(@, gid, {}) \cup {n})]

\* The loop over rel_edges as it would be if it set a row's count to one
\* instead of adding one to it.
RECURSIVE MaterializeRelationsCountOne(_, _)
MaterializeRelationsCountOne(m, rels) ==
    IF rels = << >> THEN m
    ELSE LET e  == Head(rels)
             ma == gid_for(m, e[1])
             mb == gid_for(ma, e[3])
             t  == <<GidOf(ma, e[1]), e[2], GidOf(mb, e[3])>>
         IN  MaterializeRelationsCountOne(
                 [mb EXCEPT !.group_relations = Put(@, t, 1)], Tail(rels))

\* The loop over rel_edges as it would be if it skipped a relation whose two
\* ends have one group id.
RECURSIVE MaterializeRelationsNoSelfLoops(_, _)
MaterializeRelationsNoSelfLoops(m, rels) ==
    IF rels = << >> THEN m
    ELSE LET e  == Head(rels)
             ma == gid_for(m, e[1])
             mb == gid_for(ma, e[3])
             t  == <<GidOf(ma, e[1]), e[2], GidOf(mb, e[3])>>
         IN  MaterializeRelationsNoSelfLoops(
                 IF t[1] = t[3] THEN mb
                 ELSE [mb EXCEPT !.group_relations = Put(@, t, GetOr(@, t, 0) + 1)],
                 Tail(rels))

\* The loop over rel_edges as it would be if it used the source's group id
\* for the target too.
RECURSIVE MaterializeRelationsTargetAsSource(_, _)
MaterializeRelationsTargetAsSource(m, rels) ==
    IF rels = << >> THEN m
    ELSE LET e  == Head(rels)
             ma == gid_for(m, e[1])
             mb == gid_for(ma, e[3])
             t  == <<GidOf(ma, e[1]), e[2], GidOf(ma, e[1])>>
         IN  MaterializeRelationsTargetAsSource(
                 [mb EXCEPT !.group_relations = Put(@, t, GetOr(@, t, 0) + 1)],
                 Tail(rels))

\* The loop over rel_edges.
RECURSIVE MaterializeRelations(_, _)
MaterializeRelations(m, rels) ==
    IF rels = << >> THEN m
    ELSE LET e  == Head(rels)
             ma == gid_for(m, e[1])
             mb == gid_for(ma, e[3])
             t  == <<GidOf(ma, e[1]), e[2], GidOf(mb, e[3])>>
         IN  MaterializeRelations(
                 [mb EXCEPT !.group_relations = Put(@, t, GetOr(@, t, 0) + 1)],
                 Tail(rels))

(***************************************************************************)
(* Input datasets                                                          *)
(***************************************************************************)
Feat(id, entity, namespace) == [entity |-> entity, id |-> id, namespace |-> namespace]

XRef(src, namespace, target) == [namespace |-> namespace, src |-> src, target |-> target]

OmicData(name, feature_meta, column_meta, cross_ref) ==
    [column_meta |-> column_meta, cross_ref |-> cross_ref,
     feature_meta |-> feature_meta, name |-> name]

\* The elements of s at the positions in idx, in the order of s.
RECURSIVE Pick(_, _, _)
Pick(s, idx, i) ==
    IF i > Len(s) THEN << >>
    ELSE IF i \in idx THEN <<s[i]>> \o Pick(s, idx, i + 1)
    ELSE Pick(s, idx, i + 1)

\* Every subsequence of s of at most n elements.
SubSeqs(s, n) ==
    {Pick(s, idx, 1) : idx \in {I \in SUBSET (1..Len(s)) : Cardinality(I) <= n}}

\* Longest cross_ref list of a chain dataset and of a bridge dataset.
MaxChainRefs == 5

MaxBridgeRefs == 2

\* One dataset whose identifiers all live in its own scope: two declared
\* features a and b, and aliases that chain a - x - y - z - b.
ChainRefs ==
    << XRef(<<"a">>, <<"i", "d">>, <<"x">>),
       XRef(<<"x">>, <<"i", "d">>, <<"y">>),
       XRef(<<"y">>, <<"i", "d">>, <<"z">>),
       XRef(<<"z">>, <<"i", "d">>, <<"b">>),
       XRef(<<"a">>, <<"i", "d">>, <<"b">>),
       XRef(<<"b">>, <<"i", "d">>, <<"x">>) >>

EntityHints == {None, s_gene, s_protein}

ChainInputs ==
    { << OmicData(<<"s", "e", "t">>, << Feat(<<"a">>, ea, s_gene), Feat(<<"b">>, eb, s_gene) >>,
                  << >>, refs) >> :
        ea \in {None, s_gene}, eb \in EntityHints,
        refs \in SubSeqs(ChainRefs, MaxChainRefs) }

\* Two datasets: the first declares a local feature and cross-references it,
\* the second declares a registry feature or a local feature of the same
\* spelling.
BridgeRefsA ==
    << XRef(<<"s", "a", "d">>, <<"G", "e", "n", "e", "I", "D", " ">>, <<"9", "4", "7", "4", "4", "0">>),
       XRef(<<"s", "a", "d">>, <<"l", "o", "c", "u", "s", "_", "t", "a", "g">>, <<"b", "1", "5", "2", "5">>),
       XRef(<<" ", "s", "a", "d">>, s_produced_by, <<"P", "1">>),
       XRef(<<"s", "a", "d">>, <<"f", "o", "o">>, <<"9", "4", "7", "4", "4", "0">>) >>

BridgeRefsB ==
    << XRef(<<"b", "1", "5", "2", "5", " ">>, <<"L", "o", "c", "u", "s", "_", "T", "a", "g">>, <<"s", "a", "d">>) >>

BridgeInputs ==
    { << OmicData(na, fa, << Feat(<<"s", "1">>, <<"s", "a", "m", "p", "l", "e">>, None) >>, ra),
         OmicData(nb, fb, << >>, rb) >> :
        na \in { <<"r", "n", "a">>, <<"S", "e", "t", "1", " ">> },
        fa \in { << Feat(<<"s", "a", "d">>, e, s_gene) >> : e \in {None, s_gene} },
        ra \in SubSeqs(BridgeRefsA, MaxBridgeRefs),
        nb \in { <<"p", "r", "o", "t", "e", "i", "n">>, <<"s", "e", "t", "1">> },
        fb \in { << Feat(<<"9", "4", "7", "4", "4", "0">>, e, <<"g", "e", "n", "e", "i", "d">>) >> : e \in EntityHints } \cup
               { << Feat(<<"s", "a", "d">>, e, <<"G", "e", "n", "e">>) >> : e \in {None, s_gene} },
        rb \in SubSeqs(BridgeRefsB, MaxBridgeRefs) }

\* Longest cross_ref list of a relation dataset.
MaxRelRefs == 3

\* One dataset that declares the gene g1 and cross-references it with
\* relations (some asserted twice, under two spellings or two namespaces of
\* one predicate), with a relation from g1 to itself, with an alias and a
\* relation to the same g2, with namespaces the table does not hold, and
\* with an alias between two identifiers that nothing else names.
RelRefs ==
    << XRef(<<"g", "1">>, s_produced_by, <<"P", "1">>),
       XRef(<<" ", "g", "1">>, <<"P", "r", "o", "d", "u", "c", "e", "d", "_", "B", "y", " ">>, <<"P", "1", " ">>),
       XRef(<<"g", "1">>, <<"p", "r", "o", "d", "u", "c", "t", "_", "l", "a", "b", "e", "l">>, <<"P", "1">>),
       XRef(<<"g", "1">>, <<"p", "r", "o", "t", "e", "i", "n", "_", "i", "d">>, <<"P", "1">>),
       XRef(<<"g", "1">>, s_product, <<"g", "1">>),
       XRef(<<"g", "1">>, <<"i", "d">>, <<"g", "2">>),
       XRef(<<"g", "1">>, s_has_feature, <<"g", "2">>),
       XRef(<<"g", "1">>, <<"f", "o", "o">>, <<"P", "1">>),
       XRef(<<"q">>, <<"d", "b", "_", "x", "r", "e", "f", ":", "p", "r", "o", "t", "e", "i", "n">>, <<"P", "1">>),
       XRef(<<"h", "1">>, <<"i", "d">>, <<"h", "2">>) >>

RelationInputs ==
    { << OmicData(<<"s", "e", "t">>, << Feat(<<"g", "1">>, s_gene, s_gene) >>, << >>, refs) >> :
        refs \in SubSeqs(RelRefs, MaxRelRefs) }

\* A dataset object with a name, feature metadata and cross-references and
\* no attribute column_meta.
DummyOD(name, feature_meta, cross_ref) ==
    [cross_ref |-> cross_ref, feature_meta |-> feature_meta, name |-> name]

\* Longest cross_ref list of a dataset without column metadata.
MaxBareRefs == 1

\* Datasets without column metadata: the attribute is absent, or None as
\* OmicData leaves it by default.
BareInputs ==
    { << od >> :
        od \in { DummyOD(<<"A">>, << Feat(<<"s", "a", "d">>, s_gene, s_gene) >>, refs) :
                    refs \in SubSeqs(BridgeRefsA, MaxBareRefs) }
            \cup { OmicData(<<"A">>, << Feat(<<"s", "a", "d">>, s_gene, s_gene) >>, None, refs) :
                       refs \in SubSeqs(BridgeRefsA, MaxBareRefs) } }

Inputs == ChainInputs \cup BridgeInputs \cup RelationInputs \cup BareInputs

(***************************************************************************)
(* match_references as a state machine                                     *)
(***************************************************************************)
VARIABLES
    datasets,        \* the argument tuple omic_data_sets
    pc,              \* the stage match_references is at
    feat_scope,      \* (dataset name, feature id) -> scope
    id_type,         \* key -> explicit type
    alias_edges,     \* set of sorted key pairs
    rel_edges,       \* list of (key, predicate, key)
    unknown_edges,   \* list of (key, namespace, key)
    inferred_type,   \* key -> inferred type
    uf,              \* the UnionFind
    all_keys,        \* the keys touched so far
    alias_iter,      \* alias edges the loop of build_union_find has yet to visit
    final_type,      \* key -> resolved type
    keys_iter,       \* keys the loop of materialize_alignment has yet to visit
    roots,           \* root -> group id
    next_gid,
    node_to_gid,     \* Node -> group id
    groups,          \* group id -> set of Node
    group_relations, \* (group id, predicate, group id) -> count
    call             \* the last call made on the result or on a UnionFind

vars == <<datasets, pc, feat_scope, id_type, alias_edges, rel_edges, unknown_edges,
          inferred_type, uf, all_keys, alias_iter, final_type, keys_iter, roots,
          next_gid, node_to_gid, groups, group_relations, call>>

\* No call has been made yet.
NoCall == [op |-> "none"]

Init ==
    /\ datasets \in Inputs
    /\ pc = "collect"
    /\ feat_scope = EmptyDict
    /\ id_type = EmptyDict
    /\ alias_edges = {}
    /\ rel_edges = << >>
    /\ unknown_edges = << >>
    /\ inferred_type = EmptyDict
    /\ uf = UnionFindInit
    /\ all_keys = {}
    /\ alias_iter = {}
    /\ final_type = EmptyDict
    /\ keys_iter = {}
    /\ roots = EmptyDict
    /\ next_gid = 0
    /\ node_to_gid = EmptyDict
    /\ groups = EmptyDict
    /\ group_relations = EmptyDict
    /\ call = NoCall

\* feat_scope, id_type = collect_feature_scopes_and_types(omic_data_sets);
\* an exception of the call ends match_references.
Collect ==
    /\ pc = "collect"
    /\ IF CollectError(datasets) # ""
       THEN /\ pc' = "raised"
            /\ call' = [op |-> "match_references",
                        out |-> Raise(CollectError(datasets))]
            /\ UNCHANGED <<feat_scope, id_type>>
       ELSE /\ LET r == collect_feature_scopes_and_types(datasets)
               IN  /\ feat_scope' = r.feat_scope
                   /\ id_type' = r.id_type
            /\ pc' = "ingest"
            /\ UNCHANGED call
    /\ UNCHANGED <<datasets, alias_edges, rel_edges, unknown_edges, inferred_type,
                   uf, all_keys, alias_iter, final_type, keys_iter, roots, next_gid,
                   node_to_gid, groups, group_relations>>

\* alias_edges, rel_edges, unknown_edges, inferred_type = ingest_cross_refs(...)
Ingest ==
    /\ pc = "ingest"
    /\ LET r == ingest_cross_refs(datasets, feat_scope, id_type)
       IN  /\ alias_edges' = r.alias_edges
           /\ rel_edges' = r.rel_edges
           /\ unknown_edges' = r.unknown_edges
           /\ inferred_type' = r.inferred_type
           /\ alias_iter' = r.alias_edges
    /\ pc' = "build"
    /\ UNCHANGED <<call, datasets, feat_scope, id_type, uf, all_keys, final_type,
                   keys_iter, roots, next_gid, node_to_gid, groups, group_relations>>

\* build_union_find: one turn of the loop over the set alias_edges, whose
\* iteration order is not fixed.
BuildAliasEdge ==
    /\ pc = "build"
    /\ \E e \in alias_iter :
          LET st == BuildAlias([uf |-> uf, all_keys |-> all_keys], e,
                               id_type, inferred_type)
          IN  /\ uf' = st.uf
              /\ all_keys' = st.all_keys
              /\ alias_iter' = alias_iter \ {e}
    /\ UNCHANGED <<call, datasets, pc, feat_scope, id_type, alias_edges, rel_edges,
                   unknown_edges, inferred_type, final_type, keys_iter, roots,
                   next_gid, node_to_gid, groups, group_relations>>

\* build_union_find: the loop over rel_edges, and the return.
BuildRelEdges ==
    /\ pc = "build"
    /\ alias_iter = {}
    /\ LET st == BuildRelations([uf |-> uf, all_keys |-> all_keys], rel_edges)
       IN  /\ uf' = st.uf
           /\ all_keys' = st.all_keys
    /\ pc' = "resolve"
    /\ UNCHANGED <<call, datasets, feat_scope, id_type, alias_edges, rel_edges,
                   unknown_edges, inferred_type, alias_iter, final_type, keys_iter,
                   roots, next_gid, node_to_gid, groups, group_relations>>

\* final_type = resolve_component_types(uf, all_keys, id_type, inferred_type)
Resolve ==
    /\ pc = "resolve"
    /\ final_type' = resolve_component_types(uf, all_keys, id_type, inferred_type)
    /\ uf' = FindAll(uf, all_keys)
    /\ keys_iter' = all_keys
    /\ pc' = "materialize"
    /\ UNCHANGED <<call, datasets, feat_scope, id_type, alias_edges, rel_edges,
                   unknown_edges, inferred_type, all_keys, alias_iter, roots,
                   next_gid, node_to_gid, groups, group_relations>>

Locals == [uf |-> uf, roots |-> roots, next_gid |-> next_gid,
           node_to_gid |-> node_to_gid, groups |-> groups,
           group_relations |-> group_relations]

\* materialize_alignment: one turn of the loop over the set all_keys, whose
\* iteration order is not fixed.
MaterializeKey ==
    /\ pc = "materialize"
    /\ \E k \in keys_iter :
          LET m == MaterializeNode(Locals, k, final_type)
          IN  /\ uf' = m.uf
              /\ roots' = m.roots
              /\ next_gid' = m.next_gid
              /\ node_to_gid' = m.node_to_gid
              /\ groups' = m.groups
              /\ keys_iter' = keys_iter \ {k}
    /\ UNCHANGED <<call, datasets, pc, feat_scope, id_type, alias_edges, rel_edges,
                   unknown_edges, inferred_type, all_keys, alias_iter, final_type,
                   group_relations>>

\* materialize_alignment: the loop over rel_edges, and the AlignmentResult.
MaterializeReturn ==
    /\ pc = "materialize"
    /\ keys_iter = {}
    /\ LET m == MaterializeRelations(Locals, rel_edges)
       IN  /\ uf' = m.uf
           /\ roots' = m.roots
           /\ next_gid' = m.next_gid
           /\ groups' = m.groups
           /\ group_relations' = m.group_relations
    /\ pc' = "done"
    /\ UNCHANGED <<call, datasets, feat_scope, id_type, alias_edges, rel_edges,
                   unknown_edges, inferred_type, all_keys, alias_iter, final_type,
                   keys_iter, node_to_gid>>

Next ==
    \/ Collect
    \/ Ingest
    \/ BuildAliasEdge
    \/ BuildRelEdges
    \/ Resolve
    \/ MaterializeKey
    \/ MaterializeReturn

Spec == Init /\ [][Next]_vars

(***************************************************************************)
(* Views of the returned AlignmentResult and of the edge sets               *)
(***************************************************************************)
Done == pc = "done"

\* The (scope, identifier) of a Node.
NodeKey(n) == <<n.namespace, n.identifier>>

GroupKeys(g) == {NodeKey(n) : n \in groups[g]}

GroupsOf(k) == {g \in DOMAIN groups : k \in GroupKeys(g)}

SameGroup(k1, k2) == \E g \in DOMAIN groups : k1 \in GroupKeys(g) /\ k2 \in GroupKeys(g)

\* The keys an alias edge or a relation edge touches.
AliasKeys == {e[1] : e \in alias_edges} \cup {e[2] : e \in alias_edges}

RelationKeys ==
    {rel_edges[i][1] : i \in 1..Len(rel_edges)} \cup
    {rel_edges[i][3] : i \in 1..Len(rel_edges)}

TouchedKeys == AliasKeys \cup RelationKeys

\* The type hints of a key: its explicit type and its inferred type.
Hints(k) ==
    (IF k \in DOMAIN id_type THEN {id_type[k]} ELSE {}) \cup
    (IF k \in DOMAIN inferred_type THEN {inferred_type[k]} ELSE {})

GroupHints(g) == UNION {Hints(k) : k \in GroupKeys(g)}

\* The alias edges the merge guard accepts.
AcceptedEdges == {e \in alias_edges : alias_ok(e[1], e[2], id_type, inferred_type)}

\* The keys joined to a key of S by a path of edges of E.
RECURSIVE Reach(_, _)
Reach(S, E) ==
    LET T == S \cup {e[2] : e \in {d \in E : d[1] \in S}}
                 \cup {e[1] : e \in {d \in E : d[2] \in S}}
    IN  IF T = S THEN S ELSE Reach(T, E)

\* a and b are in one set of the union-find u.
SameSet(u, a, b) ==
    /\ a \in DOMAIN u.parent
    /\ b \in DOMAIN u.parent
    /\ find(u, a).root = find(u, b).root

(***************************************************************************)
(* mapping_data.py: AlignmentResult                                        *)
(***************************************************************************)
\* Node(*args): the dataclass takes identifier, type and namespace, none of
\* which has a default.
NodeInit(args) ==
    IF Len(args) = 3 THEN Return(Node(args[1], args[2], args[3]))
    ELSE Raise("TypeError")

\* obj.name on a Node, whose attributes are its three fields.
GetAttr(obj, name) ==
    IF name \in DOMAIN obj THEN Return(obj[name]) ELSE Raise("AttributeError")

\* d.get(k), whose value is an int or None.
DictGetInt(d, k) ==
    IF k \in DOMAIN d THEN [none |-> FALSE, value |-> d[k]]
    ELSE [none |-> TRUE, value |-> 0]

\* The AlignmentResult that match_references returns.
Result ==
    [node_to_gid |-> node_to_gid, groups |-> groups,
     group_relations |-> group_relations, unknown_edges |-> unknown_edges]

\* AlignmentResult.gid_of
gid_of(self, namespace, ident) ==
    LET n == NodeInit(<<namespace, ident>>)
    IN  IF n.raised # "" THEN n
        ELSE Return(DictGetInt(self.node_to_gid, n.ret))

\* members as it would be if it looked the id up with setdefault.
members_setdefault(self, gid) ==
    [out  |-> Return(GetOr(self.groups, gid, {})),
     self |-> [self EXCEPT !.groups = IF gid \in DOMAIN @ THEN @ ELSE Put(@, gid, {})]]

\* AlignmentResult.members: what it returns and how it leaves the result.
members(self, gid) ==
    [out |-> Return(GetOr(self.groups, gid, {})), self |-> self]

\* The group ids the relation table names.
linked(self) ==
    {t[1] : t \in DOMAIN self.group_relations} \cup
    {t[3] : t \in DOMAIN self.group_relations}

\* AlignmentResult.structural_orphans
structural_orphans(self) == Return(DOMAIN self.groups \ linked(self))

\* AlignmentResult.isolated_groups
isolated_groups(self) ==
    Return({gid \in DOMAIN self.groups : Cardinality(self.groups[gid]) = 1})

\* connected_groups as it would be if it kept the sources only.
connected_sources(self) == Return({t[1] : t \in DOMAIN self.group_relations})

\* AlignmentResult.connected_groups
connected_groups(self) == Return(linked(self))

\* The rows of the two frames; a DataFrame is modelled by the set of its rows.
AliasRow(g, namespace, ident) == [gid |-> g, namespace |-> namespace, ident |-> ident]

RelRow(t, c) == [gid_src |-> t[1], relation |-> t[2], gid_tgt |-> t[3], count |-> c]

\* AlignmentResult.to_frames: each alias row reads n.namespace and n.ident.
to_frames(self) ==
    LET nodes == UNION {{<<g, n>> : n \in self.groups[g]} : g \in DOMAIN self.groups}
        bad   == {p \in nodes : GetAttr(p[2], "namespace").raised # ""
                                   \/ GetAttr(p[2], "ident").raised # ""}
    IN  IF bad # {} THEN Raise("AttributeError")
        ELSE Return(
               [alias_df |-> {AliasRow(p[1], GetAttr(p[2], "namespace").ret,
                                       GetAttr(p[2], "ident").ret) : p \in nodes},
                rel_df   |-> {RelRow(t, self.group_relations[t]) :
                                 t \in DOMAIN self.group_relations}])

\* AlignmentResult.from_frames: each alias row builds Node(namespace, ident).
from_frames(alias_df, rel_df) ==
    LET built == {<<row, NodeInit(<<row.namespace, row.ident>>)>> : row \in alias_df}
        rows  == {<<p[1].gid, p[2].ret>> : p \in built}
        gids  == {p[1] : p \in rows}
        rels  == {<<r.gid_src, r.relation, r.gid_tgt>> : r \in rel_df}
    IN  IF \E p \in built : p[2].raised # "" THEN Raise("TypeError")
        ELSE Return(
               [node_to_gid |-> [n \in {p[2] : p \in rows} |->
                                    (CHOOSE p \in rows : p[2] = n)[1]],
                groups |-> [g \in gids |-> {p[2] : p \in {q \in rows : q[1] = g}}],
                group_relations |-> [t \in rels |->
                                    (CHOOSE r \in rel_df :
                                        <<r.gid_src, r.relation, r.gid_tgt>> = t).count],
                unknown_edges |-> None])

\* to_frames, then from_frames on the frames it returned.
round_trip(self) ==
    LET frames == to_frames(self)
    IN  IF frames.raised # "" THEN frames
        ELSE from_frames(frames.ret.alias_df, frames.ret.rel_df)

(***************************************************************************)
(* Calls on the result of match_references                                 *)
(***************************************************************************)
\* The variables of match_references that are not part of its result.
pipeline == <<datasets, pc, feat_scope, id_type, alias_edges, rel_edges, inferred_type,
              uf, all_keys, alias_iter, final_type, keys_iter, roots, next_gid>>

\* The (scope, identifier) pairs a caller looks up: every key the input
\* names, and one that it does not.
QueryKeys ==
    all_keys \cup {unknown_edges[i][1] : i \in 1..Len(unknown_edges)}
             \cup {unknown_edges[i][3] : i \in 1..Len(unknown_edges)}
             \cup {<<<<"s", "e", "t">>, <<"n", "o", "b", "o", "d", "y">>>>}

\* The frames a caller hands to from_frames for a result: the columns are
\* those the docstring of to_frames names.
FramesOf(self) ==
    [alias_df |-> UNION {{AliasRow(g, n.namespace, n.identifier) : n \in self.groups[g]} :
                            g \in DOMAIN self.groups},
     rel_df   |-> {RelRow(t, self.group_relations[t]) : t \in DOMAIN self.group_relations}]

GidOfCall ==
    /\ pc = "done"
    /\ \E k \in QueryKeys :
          call' = [op |-> "gid_of", args |-> k, out |-> gid_of(Result, k[1], k[2])]
    /\ UNCHANGED <<pipeline, node_to_gid, groups, group_relations, unknown_edges>>

MembersCall ==
    /\ pc = "done"
    /\ \E gid \in 0..next_gid :
          LET r == members(Result, gid)
          IN  /\ call' = [op |-> "members", args |-> gid, out |-> r.out, before |-> Result]
              /\ node_to_gid' = r.self.node_to_gid
              /\ groups' = r.self.groups
              /\ group_relations' = r.self.group_relations
              /\ unknown_edges' = r.self.unknown_edges
    /\ UNCHANGED pipeline

StructuralOrphansCall ==
    /\ pc = "done"
    /\ call' = [op |-> "structural_orphans", out |-> structural_orphans(Result)]
    /\ UNCHANGED <<pipeline, node_to_gid, groups, group_relations, unknown_edges>>

IsolatedGroupsCall ==
    /\ pc = "done"
    /\ call' = [op |-> "isolated_groups", out |-> isolated_groups(Result)]
    /\ UNCHANGED <<pipeline, node_to_gid, groups, group_relations, unknown_edges>>

ConnectedGroupsCall ==
    /\ pc = "done"
    /\ call' = [op |-> "connected_groups", out |-> connected_groups(Result)]
    /\ UNCHANGED <<pipeline, node_to_gid, groups, group_relations, unknown_edges>>

\* save and load: to_frames, then from_frames on what it returned.
RoundTripCall ==
    /\ pc = "done"
    /\ call' = [op |-> "round_trip", out |-> round_trip(Result)]
    /\ UNCHANGED <<pipeline, node_to_gid, groups, group_relations, unknown_edges>>

\* from_frames on frames that hold the result's rows.
FromFramesCall ==
    /\ pc = "done"
    /\ call' = [op |-> "from_frames",
                out |-> from_frames(FramesOf(Result).alias_df, FramesOf(Result).rel_df)]
    /\ UNCHANGED <<pipeline, node_to_gid, groups, group_relations, unknown_edges>>

ResultInit == Init /\ datasets \in RelationInputs

ResultNext ==
    \/ Next
    \/ GidOfCall
    \/ MembersCall
    \/ StructuralOrphansCall
    \/ IsolatedGroupsCall
    \/ ConnectedGroupsCall
    \/ RoundTripCall
    \/ FromFramesCall

ResultSpec == ResultInit /\ [][ResultNext]_vars

(***************************************************************************)
(* Calls on a UnionFind of its own                                         *)
(***************************************************************************)
\* The number of keys the callers of the UnionFind use.
MaxUFKeys == 4

UFKeys == 1..MaxUFKeys

\* uf = UnionFind(); match_references is not running.
UFInit ==
    /\ uf = UnionFindInit
    /\ call = NoCall
    /\ pc = "union_find"
    /\ datasets = << >>
    /\ feat_scope = EmptyDict
    /\ id_type = EmptyDict
    /\ alias_edges = {}
    /\ rel_edges = << >>
    /\ unknown_edges = << >>
    /\ inferred_type = EmptyDict
    /\ all_keys = {}
    /\ alias_iter = {}
    /\ final_type = EmptyDict
    /\ keys_iter = {}
    /\ roots = EmptyDict
    /\ next_gid = 0
    /\ node_to_gid = EmptyDict
    /\ groups = EmptyDict
    /\ group_relations = EmptyDict

\* uf.find(x)
UFFind ==
    /\ pc = "union_find"
    /\ \E x \in UFKeys :
          LET r == find(uf, x)
          IN  /\ uf' = r.uf
              /\ call' = [op |-> "find", args |-> <<x>>, out |-> Return(r.root),
                          before |-> uf]
    /\ UNCHANGED <<datasets, pc, feat_scope, id_type, alias_edges, rel_edges,
                   unknown_edges, inferred_type, all_keys, alias_iter, final_type,
                   keys_iter, roots, next_gid, node_to_gid, groups, group_relations>>

\* uf.union(a, b)
UFUnion ==
    /\ pc = "union_find"
    /\ \E a \in UFKeys, b \in UFKeys :
          /\ uf' = union(uf, a, b)
          /\ call' = [op |-> "union", args |-> <<a, b>>, out |-> Return(None),
                      before |-> uf]
    /\ UNCHANGED <<datasets, pc, feat_scope, id_type, alias_edges, rel_edges,
                   unknown_edges, inferred_type, all_keys, alias_iter, final_type,
                   keys_iter, roots, next_gid, node_to_gid, groups, group_relations>>

UFNext == UFFind \/ UFUnion

UFSpec == UFInit /\ [][UFNext]_vars

(***************************************************************************)
(* Claims                                                                  *)
(***************************************************************************)
\* C1: in the returned result the groups partition exactly the keys touched
\* by an alias or relation edge: every touched key is in exactly one group,
\* every group member is a touched key, no key is carried by two nodes, and
\* node_to_gid maps each member to the id of the group that holds it.
C1_GroupsPartitionTouchedKeys ==
    Done =>
        /\ UNION {GroupKeys(g) : g \in DOMAIN groups} = TouchedKeys
        /\ \A k \in TouchedKeys : Cardinality(GroupsOf(k)) = 1
        /\ \A g \in DOMAIN groups :
              /\ groups[g] # {}
              /\ \A n1, n2 \in groups[g] : NodeKey(n1) = NodeKey(n2) => n1 = n2
              /\ \A n \in groups[g] : n \in DOMAIN node_to_gid /\ node_to_gid[n] = g
        /\ \A n \in DOMAIN node_to_gid : n \in groups[node_to_gid[n]]

\* A result with a merged group, a second group, and a key that only a
\* relation edge touches.
C1_Witness ==
    /\ Done
    /\ Cardinality(DOMAIN groups) >= 2
    /\ \E g \in DOMAIN groups : Cardinality(groups[g]) >= 2
    /\ RelationKeys \ AliasKeys # {}

\* C6: two touched keys are in the same group of the result if and only if
\* a path of alias edges accepted by the merge guard joins them; so a key
\* that only relation edges or refused alias edges touch is alone in its
\* group.
C6_GroupsAreAcceptedAliasComponents ==
    Done =>
        /\ \A k1, k2 \in TouchedKeys :
              SameGroup(k1, k2) <=> k2 \in Reach({k1}, AcceptedEdges)
        /\ \A k \in TouchedKeys :
              (\A e \in AcceptedEdges : k # e[1] /\ k # e[2]) =>
                  \A g \in GroupsOf(k) : GroupKeys(g) = {k}

\* A result where a path of two accepted edges joins two keys that no single
\* edge joins, and where a refused alias edge left its endpoints apart.
C6_Witness ==
    /\ Done
    /\ \E k1, k2 \in TouchedKeys :
          /\ SameGroup(k1, k2)
          /\ SortedPair(k1, k2) \notin alias_edges
          /\ k1 # k2
    /\ \E e \in alias_edges \ AcceptedEdges : ~SameGroup(e[1], e[2])

C8_OneTypeLabelPerGroup ==
    Done =>
        \A g \in DOMAIN groups :
            /\ Cardinality({n.type : n \in groups[g]}) = 1
            /\ Cardinality({n.type : n \in groups[g]} \ {s_unknown}) <= 1

\* A group whose members do not all have the same hint: one has an explicit
\* type, one an inferred type, one none.
C8_Witness ==
    /\ Done
    /\ \E g \in DOMAIN groups :
          /\ \E k \in GroupKeys(g) : k \in DOMAIN id_type
          /\ \E k \in GroupKeys(g) : k \in DOMAIN inferred_type
          /\ \E k \in GroupKeys(g) : Hints(k) = {}

\* The other endpoint of an alias edge e that has k as an endpoint.
Other(e, k) == IF e[1] = k THEN e[2] ELSE e[1]

\* C2 (as claimed): an alias edge between two identifiers of explicit,
\* different types leaves them in different groups, whatever other alias
\* edges exist.
C2_ExplicitTypeConflictKeepsGroupsApart ==
    Done =>
        \A e \in alias_edges :
            ( /\ e[1] \in DOMAIN id_type
              /\ e[2] \in DOMAIN id_type
              /\ id_type[e[1]] # id_type[e[2]] ) => ~SameGroup(e[1], e[2])

\* C4 (as claimed): the merge guard accepts every alias edge of which at most
\* one endpoint has a known type, and its endpoints end in one group.
C4_UnionProceedsUnlessBothKnown ==
    Done =>
        \A e \in alias_edges :
            ( \/ KnownType(e[1], id_type, inferred_type) = None
              \/ KnownType(e[2], id_type, inferred_type) = None ) =>
                /\ alias_ok(e[1], e[2], id_type, inferred_type)
                /\ SameGroup(e[1], e[2])

\* C5 (as claimed): once an alias edge has united an identifier x of known
\* type with an identifier y of no known type, y counts as having x's type:
\* a turn of the loop that visits an alias edge from y to an identifier z
\* whose known type differs from x's does not unite y and z.
C5_LaterMergesUseInferredType ==
    [][ \A e \in alias_iter \ alias_iter' : \A y \in {e[1], e[2]} :
          LET z == Other(e, y)
          IN  ( /\ KnownType(y, id_type, inferred_type) = None
                /\ KnownType(z, id_type, inferred_type) # None
                /\ ~SameSet(uf, y, z)
                /\ \E d \in alias_edges \ alias_iter :
                      /\ y \in {d[1], d[2]}
                      /\ KnownType(Other(d, y), id_type, inferred_type)
                             \notin {None, KnownType(z, id_type, inferred_type)}
                      /\ SameSet(uf, Other(d, y), y) )
              => ~SameSet(uf', y, z) ]_vars

\* The alias edges with one endpoint of explicit type and one without, as
\* <<typed endpoint, other endpoint>>.
HalfTypedEdges ==
    {p \in AliasKeys \X AliasKeys :
        /\ SortedPair(p[1], p[2]) \in alias_edges
        /\ p[1] \in DOMAIN id_type
        /\ p[2] \notin DOMAIN id_type}

DatasetScope(od) == Lower(Strip(od.name))

NormNs(ns) == Lower(Strip(IF Truthy(ns) THEN ns ELSE << >>))

\* od declares the feature id under a local-label namespace.
DeclaresLocal(od, id) ==
    \E i \in 1..Len(od.feature_meta) :
        /\ od.feature_meta[i].id = id
        /\ NormNs(od.feature_meta[i].namespace) \in LOCAL_NS

\* od declares the feature id under the namespace ns.
DeclaresUnder(od, id, ns) ==
    \E i \in 1..Len(od.feature_meta) :
        /\ od.feature_meta[i].id = id
        /\ NormNs(od.feature_meta[i].namespace) = ns

\* The truthy entity hints od gives for the feature id.
DeclaredTypes(od, id) ==
    {od.feature_meta[i].entity : i \in {j \in 1..Len(od.feature_meta) :
        od.feature_meta[j].id = id /\ Truthy(od.feature_meta[j].entity)}}

CrossRefs(od) == {od.cross_ref[i] : i \in 1..Len(od.cross_ref)}

FeatureIds(od) == {od.feature_meta[i].id : i \in 1..Len(od.feature_meta)}

IsLocalAlias(cr) ==
    /\ NormNs(cr.namespace) \in LOCAL_NS
    /\ NormNs(cr.namespace) \in AliasNamespaces

IsRegistryAlias(cr) ==
    /\ NormNs(cr.namespace) \in REGISTRY_NS
    /\ NormNs(cr.namespace) \in AliasNamespaces

OnlyLocalAliases ==
    \A i \in 1..Len(datasets) : \A cr \in CrossRefs(datasets[i]) : IsLocalAlias(cr)

\* Two datasets of different scopes that declare a feature of one spelling
\* under local-label namespaces.
SameSpellingLocalFeatures ==
    {t \in (1..Len(datasets)) \X (1..Len(datasets)) \X
           UNION {FeatureIds(datasets[i]) : i \in 1..Len(datasets)} :
        /\ DatasetScope(datasets[t[1]]) # DatasetScope(datasets[t[2]])
        /\ DeclaresLocal(datasets[t[1]], t[3])
        /\ DeclaresLocal(datasets[t[2]], t[3])}

RegistryBridges ==
    {t \in (1..Len(datasets)) \X (1..Len(datasets)) \X
           UNION {CrossRefs(datasets[i]) : i \in 1..Len(datasets)} :
        /\ t[1] # t[2]
        /\ t[3] \in CrossRefs(datasets[t[1]])
        /\ IsRegistryAlias(t[3])
        /\ DeclaresLocal(datasets[t[1]], Strip(t[3].src))
        /\ DeclaresUnder(datasets[t[2]], Strip(t[3].target), NormNs(t[3].namespace))
        /\ Cardinality(DeclaredTypes(datasets[t[1]], Strip(t[3].src)) \cup
                       DeclaredTypes(datasets[t[2]], Strip(t[3].target))) = 1}

BridgeType(t) ==
    CHOOSE ty \in DeclaredTypes(datasets[t[1]], Strip(t[3].src)) \cup
                  DeclaredTypes(datasets[t[2]], Strip(t[3].target)) : TRUE

\* The local-label aliases datasets[i] gives its feature f.
LocalAliasTargets(i, f) ==
    {Strip(cr.target) : cr \in {c \in CrossRefs(datasets[i]) :
                                   IsLocalAlias(c) /\ Strip(c.src) = f}}

GidOfKey(k) == CHOOSE g \in DOMAIN groups : k \in GroupKeys(g)

\* The row of the relation table a relation edge counts in.
RowOf(e) == <<GidOfKey(e[1]), e[2], GidOfKey(e[3])>>

\* The relation edges that count in the row t.
EdgesOfRow(t) == {i \in 1..Len(rel_edges) : RowOf(rel_edges[i]) = t}

\* Every cross-reference record of the input, as <<dataset, position>>.
Records ==
    UNION {{<<d, i>> : i \in 1..Len(datasets[d].cross_ref)} : d \in 1..Len(datasets)}

RecordAt(r) == datasets[r[1]].cross_ref[r[2]]

\* The records whose namespace the classification table files as a relation,
\* and those whose namespace it does not hold.
RelationRecords ==
    {r \in Records : NormNs(RecordAt(r).namespace) \in RelationNamespaces}

UnclassifiedRecords ==
    {r \in Records : NormNs(RecordAt(r).namespace) \notin DOMAIN TYPE_MAP}

RECURSIVE SumCounts(_, _)
SumCounts(f, S) ==
    IF S = {} THEN 0
    ELSE LET t == CHOOSE x \in S : TRUE
         IN  f[t] + SumCounts(f, S \ {t})

SelfLoops == {t \in DOMAIN group_relations : t[1] = t[3]}

\* C11: every row (A, predicate, B) of the relation table counts exactly the
\* relation edges with that predicate whose source is in group A and whose
\* target is in group B, there is one relation edge per relation record, and
\* every relation edge has its row: a relation asserted N times is one row of
\* count N.
C11_RowCountsItsRelationEdges ==
    Done =>
        /\ Len(rel_edges) = Cardinality(RelationRecords)
        /\ \A i \in 1..Len(rel_edges) : RowOf(rel_edges[i]) \in DOMAIN group_relations
        /\ \A t \in DOMAIN group_relations :
              /\ t[1] \in DOMAIN groups
              /\ t[3] \in DOMAIN groups
              /\ group_relations[t] = Cardinality(EdgesOfRow(t))
              /\ group_relations[t] >= 1

\* A relation asserted twice is one row of count two, next to another row.
C11_Witness ==
    /\ Done
    /\ \E t \in DOMAIN group_relations : group_relations[t] = 2
    /\ Cardinality(DOMAIN group_relations) >= 2

\* C12: materialization filters no relation: the counts of the relation table
\* sum to the number of relation records, each relation edge counts in one
\* row, and a relation whose source and target are in one group is kept as a
\* row from that group to itself.
C12_NoRelationIsFiltered ==
    Done =>
        /\ SumCounts(group_relations, DOMAIN group_relations) = Cardinality(RelationRecords)
        /\ SumCounts(group_relations, DOMAIN group_relations) = Len(rel_edges)
        /\ \A i \in 1..Len(rel_edges) :
              SameGroup(rel_edges[i][1], rel_edges[i][3]) =>
                  /\ RowOf(rel_edges[i]) \in SelfLoops
                  /\ group_relations[RowOf(rel_edges[i])] >= 1

\* An alias merge has put a relation's source and target in one group, and
\* the relation is a row from that group to itself, next to another row.
C12_Witness ==
    /\ Done
    /\ \E i \in 1..Len(rel_edges) :
          /\ rel_edges[i][1] # rel_edges[i][3]
          /\ RowOf(rel_edges[i]) \in SelfLoops
    /\ DOMAIN group_relations # SelfLoops

\* C13 (as claimed): the relation table has no row whose source group is its
\* target group.
C13_NoSelfLoops ==
    Done => SelfLoops = {}

\* C13 (amended): a row whose source group is its target group counts only
\* relation edges whose source and target are one key or are joined by a
\* path of accepted alias edges, and it counts at least one; so the table has
\* no such row when no relation record is of that kind.
C13_SelfLoopsOnlyFromJoinedEnds ==
    Done =>
        \A t \in SelfLoops :
            /\ EdgesOfRow(t) # {}
            /\ \A i \in EdgesOfRow(t) :
                  rel_edges[i][3] \in Reach({rel_edges[i][1]}, AcceptedEdges)

\* Relations and an alias merge, and no row from a group to itself.
C13_Witness ==
    /\ Done
    /\ DOMAIN group_relations # {}
    /\ SelfLoops = {}
    /\ \E g \in DOMAIN groups : Cardinality(groups[g]) >= 2

(***************************************************************************)
(* Unclassified cross-references                                           *)
(***************************************************************************)
\* The triple ingestion keeps for an unclassified record.
UnknownTriple(r) ==
    LET od == datasets[r[1]]
        cr == RecordAt(r)
        s_src == GetOr(feat_scope, <<od.name, Strip(cr.src)>>, DatasetScope(od))
        s_fb  == GetOr(feat_scope, <<od.name, Strip(cr.target)>>, DatasetScope(od))
    IN  << key(s_src, cr.src), NormNs(cr.namespace),
           key(relation_target_scope(NormNs(cr.namespace), s_fb), cr.target) >>

\* The input without its unclassified records.
RECURSIVE DropUnclassified(_)
DropUnclassified(crs) ==
    IF crs = << >> THEN << >>
    ELSE IF NormNs(Head(crs).namespace) \notin DOMAIN TYPE_MAP
    THEN DropUnclassified(Tail(crs))
    ELSE <<Head(crs)>> \o DropUnclassified(Tail(crs))

Classified(ods) ==
    [d \in 1..Len(ods) |-> [ods[d] EXCEPT !.cross_ref = DropUnclassified(@)]]

\* C18: a cross-reference whose namespace the classification table does not
\* hold is kept once in unknown_edges and has no other effect: the alias
\* edges, relation edges and inferred types that ingestion hands to the
\* union-find build are those of the input without such records, and in the
\* result unknown_edges has one triple per such record and a key that only
\* such records name is in no group.
C18_UnclassifiedKeptAndInert ==
    /\ (pc = "build" /\ all_keys = {}) =>
          LET clean == ingest_cross_refs(Classified(datasets), feat_scope, id_type)
          IN  /\ alias_edges = clean.alias_edges
              /\ rel_edges = clean.rel_edges
              /\ inferred_type = clean.inferred_type
              /\ clean.unknown_edges = << >>
    /\ Done =>
          /\ Len(unknown_edges) = Cardinality(UnclassifiedRecords)
          /\ \A r \in UnclassifiedRecords :
                Cardinality({i \in 1..Len(unknown_edges) : unknown_edges[i] = UnknownTriple(r)})
                    = Cardinality({q \in UnclassifiedRecords : UnknownTriple(q) = UnknownTriple(r)})
          /\ \A i \in 1..Len(unknown_edges) :
                \A k \in {unknown_edges[i][1], unknown_edges[i][3]} :
                    k \notin TouchedKeys => GroupsOf(k) = {}

\* An unclassified record is in unknown_edges; one of its ends is in no
\* group, the other is in a group on account of a classified record.
C18_Witness ==
    /\ Done
    /\ \E i \in 1..Len(unknown_edges) :
          /\ GroupsOf(unknown_edges[i][1]) = {}
          /\ GroupsOf(unknown_edges[i][3]) # {}
    /\ DOMAIN group_relations # {}

(***************************************************************************)
(* Queries and persistence                                                 *)
(***************************************************************************)
\* The (group id, (scope, identifier)) pairs and the relation rows of a
\* result.
MembershipPairs(self) ==
    UNION {{<<g, NodeKey(n)>> : n \in self.groups[g]} : g \in DOMAIN self.groups}

RelationRows(self) ==
    {<<t[1], t[2], t[3], self.group_relations[t]>> : t \in DOMAIN self.group_relations}

\* C14 (as claimed): to_frames followed by from_frames succeeds on every
\* result of match_references and gives back the same membership pairs and
\* the same relation rows.
C14_RoundTripPreservesResult ==
    call.op = "round_trip" =>
        /\ call.out.raised = ""
        /\ MembershipPairs(call.out.ret) = MembershipPairs(Result)
        /\ RelationRows(call.out.ret) = RelationRows(Result)

\* C15 (as claimed): gid_of(scope, identifier) returns the id of the group
\* that holds the pair when a group holds it, and returns None without
\* raising when none does.
C15_GidOfFindsTheGroup ==
    call.op = "gid_of" =>
        /\ call.out.raised = ""
        /\ IF GroupsOf(call.args) # {}
           THEN ~call.out.ret.none /\ call.out.ret.value \in GroupsOf(call.args)
           ELSE call.out.ret.none

\* C16: members(gid) returns without raising exactly the nodes that
\* node_to_gid maps to gid, which is the empty set for an id that is not in
\* the result, and it leaves the result, its groups included, as it was.
C16_MembersOfAGroup ==
    call.op = "members" =>
        /\ call.out.raised = ""
        /\ call.out.ret = {n \in DOMAIN node_to_gid : node_to_gid[n] = call.args}
        /\ call.args \notin DOMAIN call.before.groups => call.out.ret = {}
        /\ Result = call.before

\* members was called with an id that is not in a result that has a group
\* of two nodes, and returned the empty set.
C16_Witness ==
    /\ call.op = "members"
    /\ call.args \notin DOMAIN groups
    /\ call.out.ret = {}
    /\ \E g \in DOMAIN groups : Cardinality(groups[g]) >= 2

\* The groups that some relation row names as source or target.
Related == {g \in DOMAIN groups :
               \E t \in DOMAIN group_relations : t[1] = g \/ t[3] = g}

\* C17: on a result of match_references, structural_orphans returns the
\* groups that no relation row names, connected_groups those that some row
\* names as source or target, isolated_groups those with exactly one member;
\* orphans and connected groups are disjoint and together are all the group
\* ids.
C17_DerivedViews ==
    Done =>
        /\ call.op = "structural_orphans" =>
              call.out = Return(DOMAIN groups \ Related)
        /\ call.op = "connected_groups" => call.out = Return(Related)
        /\ call.op = "isolated_groups" =>
              call.out = Return({g \in DOMAIN groups : Cardinality(groups[g]) = 1})
        /\ structural_orphans(Result).ret \cap connected_groups(Result).ret = {}
        /\ structural_orphans(Result).ret \cup connected_groups(Result).ret = DOMAIN groups

\* structural_orphans was called on a result that has orphans, connected
\* groups, and groups of one and of several members.
C17_Witness ==
    /\ call.op = "structural_orphans"
    /\ call.out.ret # {}
    /\ connected_groups(Result).ret # {}
    /\ isolated_groups(Result).ret \notin {{}, DOMAIN groups}

(***************************************************************************)
(* The union-find engine                                                   *)
(***************************************************************************)
\* The root of a key that u holds, read off the parent pointers.
RECURSIVE RootOf(_, _)
RootOf(u, k) == IF u.parent[k] = k THEN k ELSE RootOf(u, u.parent[k])

\* The root and the rank a key has in u, an unseen key being a set of its own
\* of rank 0.
RootIn(u, k) == IF k \in DOMAIN u.parent THEN RootOf(u, k) ELSE k

RankIn(u, k) == IF k \in DOMAIN u.rank THEN u.rank[k] ELSE 0

\* C19: find(x) on a key never seen returns x, inserts x as its own parent
\* with rank 0 and leaves every other key's parent and rank as they were;
\* find on a key already seen returns the root of its set, inserts no key and
\* leaves every key's root and rank as they were.
C19_FindInsertsLazilyAndKeepsSets ==
    call.op = "find" =>
        LET x == call.args[1]
            b == call.before
        IN  IF x \notin DOMAIN b.parent
            THEN /\ call.out = Return(x)
                 /\ uf.parent = Put(b.parent, x, x)
                 /\ uf.rank = Put(b.rank, x, 0)
            ELSE /\ call.out = Return(RootOf(b, x))
                 /\ DOMAIN uf.parent = DOMAIN b.parent
                 /\ \A k \in DOMAIN b.parent : RootOf(uf, k) = RootOf(b, k)
                 /\ uf.rank = b.rank

\* find was called on a key two steps below its root, and compressed the
\* path.
C19_Witness ==
    /\ call.op = "find"
    /\ call.args[1] \in DOMAIN call.before.parent
    /\ call.before.parent[call.args[1]] # RootOf(call.before, call.args[1])
    /\ uf.parent[call.args[1]] = call.out.ret

\* C20: union(a, b) joins the sets of a and b and no others.  When a and b
\* are in one set already, every key keeps its root and its rank.  Otherwise
\* the root of larger rank is the root of the merged set and every rank is
\* as it was; on equal ranks one of the two roots is the root of the merged
\* set, its rank grows by one and every other rank is as it was.
C20_UnionMergesByRank ==
    call.op = "union" =>
        LET a  == call.args[1]
            b  == call.args[2]
            bf == call.before
            K  == DOMAIN bf.parent \cup {a, b}
            ra == RootIn(bf, a)
            rb == RootIn(bf, b)
            top == RootOf(uf, a)
        IN  /\ DOMAIN uf.parent = K
            /\ \A k1 \in K, k2 \in K :
                  (RootOf(uf, k1) = RootOf(uf, k2)) <=>
                      \/ RootIn(bf, k1) = RootIn(bf, k2)
                      \/ {RootIn(bf, k1), RootIn(bf, k2)} = {ra, rb}
            /\ \A k \in K : RootIn(bf, k) \notin {ra, rb} => RootOf(uf, k) = RootIn(bf, k)
            /\ ra = rb =>
                  /\ \A k \in K : RootOf(uf, k) = RootIn(bf, k)
                  /\ \A k \in K : RankIn(uf, k) = RankIn(bf, k)
            /\ (ra # rb /\ RankIn(bf, ra) > RankIn(bf, rb)) =>
                  /\ top = ra
                  /\ \A k \in K : RankIn(uf, k) = RankIn(bf, k)
            /\ (ra # rb /\ RankIn(bf, ra) < RankIn(bf, rb)) =>
                  /\ top = rb
                  /\ \A k \in K : RankIn(uf, k) = RankIn(bf, k)
            /\ (ra # rb /\ RankIn(bf, ra) = RankIn(bf, rb)) =>
                  /\ top \in {ra, rb}
                  /\ RankIn(uf, top) = RankIn(bf, top) + 1
                  /\ \A k \in K \ {top} : RankIn(uf, k) = RankIn(bf, k)

\* union joined the set of a, whose root had the smaller rank, under the
\* root of b.
C20_Witness ==
    /\ call.op = "union"
    /\ RootIn(call.before, call.args[1]) # RootIn(call.before, call.args[2])
    /\ RankIn(call.before, RootIn(call.before, call.args[1])) <
           RankIn(call.before, RootIn(call.before, call.args[2]))
    /\ RootOf(uf, call.args[1]) = RootIn(call.before, call.args[2])

(***************************************************************************)
(* Group ids                                                               *)
(***************************************************************************)
\* The row a relation edge is counted in, read off the ids of the roots.
RowByRoots(e) == <<roots[RootOf(uf, e[1])], e[2], roots[RootOf(uf, e[3])]>>

\* C21: group ids are dense and consistent.  While and after the groups are
\* built the ids in use are exactly 0..n-1 for n groups, each id belongs to
\* one union-find root and each root to one id, and every node filed so far
\* is in the group of its root's id.  In the result two keys have the same
\* group id if and only if they have the same root, and the ids looked up
\* again for the endpoints of a relation edge are the ids of their groups.
C21_GroupIdsDenseAndConsistent ==
    pc \in {"materialize", "done"} =>
        /\ DOMAIN groups = 0..(next_gid - 1)
        /\ {roots[r] : r \in DOMAIN roots} = 0..(next_gid - 1)
        /\ \A r1 \in DOMAIN roots, r2 \in DOMAIN roots : roots[r1] = roots[r2] => r1 = r2
        /\ \A r \in DOMAIN roots : RootOf(uf, r) = r
        /\ \A n \in DOMAIN node_to_gid :
              /\ node_to_gid[n] = roots[RootOf(uf, NodeKey(n))]
              /\ n \in groups[node_to_gid[n]]
        /\ Done =>
              /\ Cardinality(DOMAIN groups) = Cardinality({RootOf(uf, k) : k \in all_keys})
              /\ \A k1 \in all_keys, k2 \in all_keys :
                    (GidOfKey(k1) = GidOfKey(k2)) <=> (RootOf(uf, k1) = RootOf(uf, k2))
              /\ \A i \in 1..Len(rel_edges) :
                    /\ RowByRoots(rel_edges[i]) = RowOf(rel_edges[i])
                    /\ RowByRoots(rel_edges[i]) \in DOMAIN group_relations

\* A result of three groups or more, one of them of two keys or more, with a
\* relation row between two different groups.
C21_Witness ==
    /\ Done
    /\ Cardinality(DOMAIN groups) >= 3
    /\ \E g \in DOMAIN groups : Cardinality(groups[g]) >= 2
    /\ \E t \in DOMAIN group_relations : t[1] # t[3]

\* C29: every group id that is the source or the target of a relation row is
\* a key of groups with at least one member.  Both ends of every relation edge
\* are in all_keys, so the loop over rel_edges finds an id for every root it
\* looks up: it leaves roots and next_gid as the loop over all_keys left them.
C29_RelationRowsNameGroups ==
    /\ pc \in {"resolve", "materialize", "done"} =>
          \A i \in 1..Len(rel_edges) : {rel_edges[i][1], rel_edges[i][3]} \subseteq all_keys
    /\ (pc = "materialize" /\ keys_iter = {}) =>
          /\ MaterializeRelations(Locals, rel_edges).roots = roots
          /\ MaterializeRelations(Locals, rel_edges).next_gid = next_gid
          /\ MaterializeRelations(Locals, rel_edges).groups = groups
    /\ Done =>
          \A t \in DOMAIN group_relations : \A g \in {t[1], t[3]} :
              /\ g \in DOMAIN groups
              /\ groups[g] # {}

\* A relation row whose target group holds one key that no alias edge and no
\* feature names: only the relation touched it.
C29_Witness ==
    /\ Done
    /\ \E t \in DOMAIN group_relations :
          /\ t[1] # t[3]
          /\ Cardinality(groups[t[3]]) = 1
          /\ GroupKeys(t[3]) \cap (AliasKeys \cup DOMAIN id_type) = {}

(***************************************************************************)
(* Ranks and parent chains                                                 *)
(***************************************************************************)
\* The key reached from k by following n parent pointers.
RECURSIVE Climb(_, _, _)
Climb(u, k, n) == IF n = 0 THEN k ELSE Climb(u, u.parent[k], n - 1)

\* C30: after any sequence of find and union calls every key has a parent
\* and a rank, every key that is not a root has a rank strictly smaller than
\* the rank of its parent, so that following the parent pointers from a key
\* comes to a root in fewer steps than there are keys, and find returns a
\* root.
C30_RanksGrowTowardsTheRoot ==
    /\ DOMAIN uf.rank = DOMAIN uf.parent
    /\ \A k \in DOMAIN uf.parent :
          /\ uf.parent[k] \in DOMAIN uf.parent
          /\ uf.parent[k] # k => uf.rank[k] < uf.rank[uf.parent[k]]
          /\ \E n \in 0..(Cardinality(DOMAIN uf.parent) - 1) :
                uf.parent[Climb(uf, k, n)] = Climb(uf, k, n)
    /\ call.op = "find" => uf.parent[call.out.ret] = call.out.ret

\* A chain of two parent pointers under a root of rank 2.
C30_Witness ==
    /\ pc = "union_find"
    /\ \E k \in DOMAIN uf.parent :
          /\ uf.parent[k] # k
          /\ uf.parent[uf.parent[k]] # uf.parent[k]
          /\ uf.rank[RootOf(uf, k)] = 2

(***************************************************************************)
(* The alias edge set                                                      *)
(***************************************************************************)
NoEdges ==
    [alias_edges |-> {}, rel_edges |-> << >>, unknown_edges |-> << >>,
     inferred_type |-> EmptyDict]

\* The records the classification table files as aliases.
AliasRecords ==
    {r \in Records : NormNs(RecordAt(r).namespace) \in AliasNamespaces}

\* The two qualified identifiers an alias record names, as an unordered pair.
AliasEnds(r) ==
    LET es == IngestRecord(datasets[r[1]], RecordAt(r), feat_scope, id_type, NoEdges).alias_edges
    IN  UNION {{e[1], e[2]} : e \in es}

\* The qualified identifier an alias record names as its source.
AliasSource(r) ==
    LET od == datasets[r[1]]
        src_raw == Strip(RecordAt(r).src)
    IN  key(GetOr(feat_scope, <<od.name, src_raw>>, normalize_feature_scope(od, None)),
            src_raw)

Ingested == pc \in {"build", "resolve", "materialize", "done"}

\* C25: the alias edge set holds one edge per unordered pair of qualified
\* identifiers that some alias record names, whatever the number of records
\* that name the pair, the order of the two ends in them and the dataset
\* they are in; ingesting every dataset a second time leaves the set as it
\* is.
C25_OneAliasEdgePerUnorderedPair ==
    Ingested =>
        /\ \A e1 \in alias_edges, e2 \in alias_edges :
              {e1[1], e1[2]} = {e2[1], e2[2]} => e1 = e2
        /\ (pc = "build" /\ all_keys = {}) =>
              /\ {{e[1], e[2]} : e \in alias_edges} = {AliasEnds(r) : r \in AliasRecords}
              /\ ingest_cross_refs(datasets \o datasets, feat_scope, id_type).alias_edges
                    = alias_edges

\* Two records of two datasets name the same two identifiers, one with the
\* source and the target of the other exchanged, and the set has one edge.
C25_Witness ==
    /\ Done
    /\ Cardinality(alias_edges) = 1
    /\ \E r1 \in AliasRecords, r2 \in AliasRecords :
          /\ r1[1] # r2[1]
          /\ AliasEnds(r1) = AliasEnds(r2)
          /\ Cardinality(AliasEnds(r1)) = 2
          /\ AliasSource(r1) # AliasSource(r2)

(***************************************************************************)
(* Calls of the functions of tagger.py                                     *)
(***************************************************************************)
\* IDS.type: the fields of _Entity.
Entity ==
    [dna |-> s_dna, gene |-> s_gene, cds |-> <<"c", "d", "s">>, rna |-> <<"r", "n", "a">>,
     protein |-> s_protein, metabolite |-> s_metabolite, sample |-> <<"s", "a", "m", "p", "l", "e">>,
     other |-> <<"o", "t", "h", "e", "r">>, unknown |-> s_unknown]

\* The attributes of IDS.type that the dict display of _REL_TYPE_MAP reads
\* when the module is loaded, in the order of its entries; the bodies of the
\* lambdas are not evaluated then.
RelTypeMapAttributes ==
    <<"protein", "protein", "metabolite", "dna", "protein", "protein", "study">>

\* Loading tagger.py: the table, or the exception of the first attribute
\* that IDS.type does not have.
import_tagger ==
    IF \E i \in 1..Len(RelTypeMapAttributes) :
           GetAttr(Entity, RelTypeMapAttributes[i]).raised # ""
    THEN Raise("AttributeError")
    ELSE Return(REL_TYPE_MAP)

\* Namespaces as a caller may spell them: missing, empty, blank, registries,
\* dotted names, local labels, db_xref forms, relation namespaces and names
\* no table holds, in several cases and with blanks around them.
TaggerNamespaces ==
    { None, <<>>, <<" ", " ">>, <<"g", "e", "n", "e", "i", "d">>, <<"G", "e", "n", "e", "I", "D">>, <<" ", "G", "e", "n", "e", "I", "D", " ">>, <<"R", "e", "f", "S", "e", "q", ".", "L", "o", "c", "u", "s", "_", "T", "a", "g">>,
      <<"M", "y", ".", "D", "B">>, <<"s", "y", "m", "b", "o", "l">>, <<" ", "L", "o", "c", "u", "s", "_", "T", "a", "g">>, <<"I", "D">>, <<"C", "u", "s", "t", "o", "m">>, <<"a", "l", "i", "a", "s">>,
      <<"d", "b", "_", "x", "r", "e", "f", ":", "G", "e", "n", "e", "I", "D">>, <<"D", "B", "_", "X", "R", "E", "F", ":">>, <<"d", "b", "_", "x", "r", "e", "f", ":", "m", "y", " ", "d", "b">>, s_produced_by,
      <<"P", "r", "o", "t", "e", "i", "n", "_", "I", "D">>, <<"g", "e", "n", "b", "a", "n", "k">>, <<"f", "o", "o", " ">> }

TaggerNames == { <<"r", "n", "a">>, <<" ", "S", "e", "t", "1", " ">> }

TaggerScopes == { <<"r", "n", "a">>, <<"s", "e", "t", "1">> }

TaggerTypes == { s_gene, s_protein, s_unknown }

\* A dataset that declares sad, and 947440 or not, under namespaces of every
\* kind, and an alias record from sad to 947440.
TaggerDatasets ==
    { OmicData(<<" ", "S", "e", "t", "1", " ">>, << Feat(<<"s", "a", "d">>, se, fns) >> \o tf, << >>, << >>) :
        se \in {None, s_gene},
        fns \in {None, <<"G", "e", "n", "e", "I", "D">>},
        tf \in {<< >>} \cup { << Feat(<<"9", "4", "7", "4", "4", "0">>, te, tns) >> :
                                 te \in {None, s_dna},
                                 tns \in {None, <<"C", "u", "s", "t", "o", "m">>, <<"U", "n", "i", "P", "r", "o", "t">>} } }

TaggerAliasRecords ==
    { XRef(<<" ", "s", "a", "d">>, ns, <<"9", "4", "7", "4", "4", "0", " ">>) :
        ns \in { <<"G", "e", "n", "e", "I", "D", " ">>, <<" ", "L", "o", "c", "u", "s", "_", "T", "a", "g">>, <<"I", "D">>, <<"a", "l", "i", "a", "s">>, <<"K", "E", "G", "G", ".", "C", "o", "m", "p", "o", "u", "n", "d">> } }

TaggerRelationRecords ==
    { XRef(<<"s", "a", "d", " ">>, ns, <<" ", "9", "4", "7", "4", "4", "0">>) :
        ns \in { s_produced_by, <<" ", "P", "r", "o", "t", "e", "i", "n", "_", "I", "D">>, s_contains, <<"G", "e", "n", "b", "a", "n", "k">>, <<"P", "r", "o", "d", "u", "c", "t", " ">> } }

\* One dataset with one cross-reference record.
TaggerInputs ==
    { << [od EXCEPT !.cross_ref = <<cr>>] >> :
        od \in TaggerDatasets, cr \in TaggerAliasRecords \cup TaggerRelationRecords }

\* A dataset is at hand; no pipeline and no union-find is running, and no
\* call was made.
TaggerInit ==
    /\ uf = UnionFindInit
    /\ call = NoCall
    /\ pc = "tagger"
    /\ datasets \in TaggerInputs
    /\ feat_scope = EmptyDict
    /\ id_type = EmptyDict
    /\ alias_edges = {}
    /\ rel_edges = << >>
    /\ unknown_edges = << >>
    /\ inferred_type = EmptyDict
    /\ all_keys = {}
    /\ alias_iter = {}
    /\ final_type = EmptyDict
    /\ keys_iter = {}
    /\ roots = EmptyDict
    /\ next_gid = 0
    /\ node_to_gid = EmptyDict
    /\ groups = EmptyDict
    /\ group_relations = EmptyDict

\* The functions keep no state, so a behaviour makes one call; the call
\* changes nothing but the record of the call.
TaggerCall ==
    /\ pc = "tagger"
    /\ call = NoCall
    /\ UNCHANGED <<datasets, pc, feat_scope, id_type, alias_edges, rel_edges,
                   unknown_edges, inferred_type, uf, all_keys, alias_iter,
                   final_type, keys_iter, roots, next_gid, node_to_gid, groups,
                   group_relations>>

\* normalize_feature_scope(od, ns)
NormalizeFeatureScopeCall ==
    /\ TaggerCall
    /\ \E name \in TaggerNames, ns \in TaggerNamespaces :
          call' = [args |-> <<name, ns>>, op |-> "normalize_feature_scope",
                   out |-> Return(normalize_feature_scope(
                               OmicData(name, << >>, << >>, << >>), ns))]

\* alias_target_scope(rel_ns, src_scope, fallback)
AliasTargetScopeCall ==
    /\ TaggerCall
    /\ \E ns \in TaggerNamespaces, src_scope \in TaggerScopes, fallback \in TaggerScopes :
          call' = [args |-> <<ns, src_scope, fallback>>, op |-> "alias_target_scope",
                   out |-> Return(alias_target_scope(ns, src_scope, fallback))]

\* relation_target_scope(rel_ns, fallback)
RelationTargetScopeCall ==
    /\ TaggerCall
    /\ \E ns \in TaggerNamespaces \ {None}, fallback \in TaggerScopes :
          call' = [args |-> <<ns, fallback>>, op |-> "relation_target_scope",
                   out |-> Return(relation_target_scope(ns, fallback))]

\* tag_record(namespace)
TagRecordCall ==
    /\ TaggerCall
    /\ \E ns \in TaggerNamespaces \ {None} :
          call' = [args |-> <<ns>>, op |-> "tag_record",
                   out |-> Return(tag_record(ns))]

\* derive_type(namespace, source_type)
DeriveTypeCall ==
    /\ TaggerCall
    /\ \E ns \in TaggerNamespaces \ {None}, t \in TaggerTypes :
          call' = [args |-> <<ns, t>>, op |-> "derive_type",
                   out |-> Return(derive_type(ns, t))]

\* The first two stages of match_references on one dataset with one alias
\* record: the edge the record leaves in alias_edges.
IngestAliasCall ==
    /\ TaggerCall
    /\ tag_record(Strip(Lower(datasets[1].cross_ref[1].namespace))) = "alias"
    /\ LET c == collect_feature_scopes_and_types(datasets)
           r == ingest_cross_refs(datasets, c.feat_scope, c.id_type)
       IN  call' = [args |-> <<datasets[1], datasets[1].cross_ref[1]>>,
                    op |-> "ingest_alias",
                    out |-> Return(r.alias_edges)]

\* The first two stages of match_references on one dataset with one relation
\* record: the inferred types the record leaves.
IngestRelationCall ==
    /\ TaggerCall
    /\ tag_record(Strip(Lower(datasets[1].cross_ref[1].namespace))) = "relation"
    /\ LET c == collect_feature_scopes_and_types(datasets)
           r == ingest_cross_refs(datasets, c.feat_scope, c.id_type)
       IN  call' = [args |-> <<datasets[1], datasets[1].cross_ref[1]>>,
                    op |-> "ingest_relation",
                    out |-> Return([id_type |-> c.id_type,
                                    inferred_type |-> r.inferred_type,
                                    rel_edges |-> r.rel_edges])]

\* import idalign.tagger
ImportTaggerCall ==
    /\ TaggerCall
    /\ call' = [args |-> << >>, op |-> "import", out |-> import_tagger]

TaggerNext ==
    \/ ImportTaggerCall
    \/ IngestRelationCall
    \/ NormalizeFeatureScopeCall
    \/ AliasTargetScopeCall
    \/ RelationTargetScopeCall
    \/ TagRecordCall
    \/ DeriveTypeCall
    \/ IngestAliasCall

TaggerSpec == TaggerInit /\ [][TaggerNext]_vars

\* The scope of a dataset: its name, trimmed and lower-cased.
ScopeOfName(name) == Lower(Strip(name))

\* C22 as stated: normalize_feature_scope maps an empty or missing namespace
\* to the dataset's lower-cased, trimmed name, a registry namespace or one
\* with a dot to the namespace itself, a local label to the dataset's scope
\* and any other namespace to the namespace string itself.
C22_ScopeIsTheNamespaceAsGiven ==
    call.op = "normalize_feature_scope" =>
        LET name == call.args[1]
            ns   == call.args[2]
            n    == NormNs(ns)
            out  == call.out.ret
        IN  /\ call.out.raised = ""
            /\ n = << >> => out = ScopeOfName(name)
            /\ (n \in REGISTRY_NS \/ HasChar(n, ".")) => out = ns
            /\ n \in LOCAL_NS => out = ScopeOfName(name)
            /\ (n # << >> /\ n \notin REGISTRY_NS \cup LOCAL_NS) => out = ns

\* C22, amended: the namespace is compared, and returned, trimmed and
\* lower-cased.  An empty, blank or missing namespace gives the dataset's
\* lower-cased, trimmed name; a registry namespace or one with a dot gives
\* the trimmed, lower-cased namespace; a local label gives the dataset's
\* scope; any other namespace gives the trimmed, lower-cased namespace.
C22_ScopeIsTheNormalizedNamespace ==
    call.op = "normalize_feature_scope" =>
        LET name == call.args[1]
            n    == NormNs(call.args[2])
            out  == call.out.ret
        IN  /\ call.out.raised = ""
            /\ n = << >> => out = ScopeOfName(name)
            /\ (n \in REGISTRY_NS \/ HasChar(n, ".")) => out = n
            /\ n \in LOCAL_NS => out = ScopeOfName(name)
            /\ (n # << >> /\ n \notin REGISTRY_NS \cup LOCAL_NS) => out = n

\* A namespace no table holds, spelled with a capital, came back lower-cased.
C22_Witness ==
    /\ call.op = "normalize_feature_scope"
    /\ NormNs(call.args[2]) \notin REGISTRY_NS \cup LOCAL_NS \cup {<< >>}
    /\ ~HasChar(NormNs(call.args[2]), ".")
    /\ call.out.ret # call.args[2]
    /\ call.out.ret = NormNs(call.args[2])

\* The part of a namespace after its first colon.
Suffix(ns) == AfterFirst(ns, ":")

\* The scope the first stage files the identifier id of dataset od under: the
\* scope of its declared namespace, or the dataset's default scope.
DeclaredScope(od, id) ==
    LET decl == {i \in 1..Len(od.feature_meta) : od.feature_meta[i].id = id}
    IN  IF decl = {} THEN ScopeOfName(od.name)
        ELSE normalize_feature_scope(od, od.feature_meta[CHOOSE i \in decl : TRUE].namespace)

\* C23 as stated: the scope of an alias target is the named registry for a
\* db_xref:<registry> namespace (the fallback when the suffix is empty), the
\* namespace itself when it is a registry, the source's scope when it is a
\* local label, and the fallback otherwise.
C23_TargetScopeFromNamespaceAsGiven ==
    /\ call.op = "alias_target_scope" =>
          LET ns  == IF Truthy(call.args[1]) THEN call.args[1] ELSE << >>
              n   == NormNs(ns)
              out == call.out.ret
          IN  IF StartsWith(n, db_xref_prefix)
              THEN out = (IF Suffix(Strip(ns)) # << >> THEN Suffix(Strip(ns)) ELSE call.args[3])
              ELSE IF n \in REGISTRY_NS THEN out = ns
              ELSE IF n \in LOCAL_NS THEN out = call.args[2]
              ELSE out = call.args[3]
    /\ call.op = "ingest_alias" =>
          LET od  == call.args[1]
              cr  == call.args[2]
              n   == NormNs(cr.namespace)
              src == Strip(cr.src)
              tgt == Strip(cr.target)
              s_src == DeclaredScope(od, src)
              s_tgt == IF n \in REGISTRY_NS THEN cr.namespace
                       ELSE IF n \in LOCAL_NS THEN s_src
                       ELSE DeclaredScope(od, tgt)
          IN  \A e \in call.out.ret : {e[1], e[2]} = {<<s_src, src>>, <<s_tgt, tgt>>}

\* C23, amended: alias_target_scope lower-cases the namespace it is given,
\* and ingest_cross_refs gives it the record's namespace lower-cased and
\* trimmed.  With n that namespace, the target's scope is the part of n after
\* "db_xref:" (the fallback when that part is empty), n when n is a registry,
\* the source's scope when n is a local label, and the fallback otherwise.
\* For a record of a dataset the source's scope is the scope the source is
\* declared under, or the dataset's default scope, and the fallback is the
\* scope the target is declared under in that dataset, or the dataset's
\* default scope.
C23_TargetScopeFromNormalizedNamespace ==
    /\ call.op = "alias_target_scope" =>
          LET n   == Lower(IF Truthy(call.args[1]) THEN call.args[1] ELSE << >>)
              out == call.out.ret
          IN  IF StartsWith(n, db_xref_prefix)
              THEN out = (IF Suffix(n) # << >> THEN Suffix(n) ELSE call.args[3])
              ELSE IF n \in REGISTRY_NS THEN out = n
              ELSE IF n \in LOCAL_NS THEN out = call.args[2]
              ELSE out = call.args[3]
    /\ call.op = "ingest_alias" =>
          LET od  == call.args[1]
              cr  == call.args[2]
              n   == NormNs(cr.namespace)
              src == Strip(cr.src)
              tgt == Strip(cr.target)
              s_src == DeclaredScope(od, src)
              s_tgt == IF n \in REGISTRY_NS THEN n
                       ELSE IF n \in LOCAL_NS THEN s_src
                       ELSE DeclaredScope(od, tgt)
          IN  /\ Cardinality(call.out.ret) = 1
              /\ \A e \in call.out.ret : {e[1], e[2]} = {<<s_src, src>>, <<s_tgt, tgt>>}

\* An alias record whose namespace is neither a registry nor a local label:
\* its target is filed under the scope the dataset declares it under, which
\* is not the dataset's own.
C23_Witness ==
    /\ call.op = "ingest_alias"
    /\ NormNs(call.args[2].namespace) \notin REGISTRY_NS \cup LOCAL_NS
    /\ \E e \in call.out.ret :
          <<DeclaredScope(call.args[1], <<"9", "4", "7", "4", "4", "0">>), <<"9", "4", "7", "4", "4", "0">>>> \in {e[1], e[2]}
    /\ DeclaredScope(call.args[1], <<"9", "4", "7", "4", "4", "0">>) # ScopeOfName(call.args[1].name)

(***************************************************************************)
(* Spellings of a namespace                                                *)
(***************************************************************************)
UpperChar(c) ==
    IF \E i \in 1..Len(LowerCase) : LowerCase[i] = c
    THEN UpperCase[CHOOSE i \in 1..Len(LowerCase) : LowerCase[i] = c]
    ELSE c

\* Another spelling of a namespace: in capitals, with a blank before it and a
\* tab after it.  A missing namespace stays missing.
Respell(ns) ==
    IF ns = None THEN None
    ELSE <<" ">> \o [i \in 1..Len(ns) |-> UpperChar(ns[i])] \o <<"\t">>

RespellAll(recs) == [i \in 1..Len(recs) |-> [recs[i] EXCEPT !.namespace = Respell(@)]]

\* The datasets with every namespace, of features, columns and
\* cross-references, in its other spelling.
Respelled(ods) ==
    [d \in 1..Len(ods) |->
        [ods[d] EXCEPT !.feature_meta = RespellAll(@),
                       !.column_meta = RespellAll(@),
                       !.cross_ref = RespellAll(@)]]

\* The groups, as sets of keys, that the alias edges E, the relation edges R
\* and the type hints idt and inf lead to: the components of the accepted
\* alias edges over the keys that E and R name.
PartitionOf(E, R, idt, inf) ==
    LET keys == UNION {{e[1], e[2]} : e \in E}
                    \cup UNION {{R[i][1], R[i][3]} : i \in 1..Len(R)}
        acc  == {e \in E : alias_ok(e[1], e[2], idt, inf)}
    IN  {Reach({k}, acc) : k \in keys}

\* C24: namespaces that differ only in letter case or in blanks around them
\* are the same namespace.  Respelling every namespace of the input changes
\* neither the scope and the type of a declared feature, nor the tag of a
\* record, nor the alias, relation and unclassified edges with their scoped
\* ends, nor the inferred types, and so not the groups of the result.
C24_SpellingOfNamespacesIsIrrelevant ==
    /\ (pc = "build" /\ all_keys = {}) =>
          LET c == collect_feature_scopes_and_types(Respelled(datasets))
              g == ingest_cross_refs(Respelled(datasets), c.feat_scope, c.id_type)
          IN  /\ c.feat_scope = feat_scope
              /\ c.id_type = id_type
              /\ g.alias_edges = alias_edges
              /\ g.rel_edges = rel_edges
              /\ g.unknown_edges = unknown_edges
              /\ g.inferred_type = inferred_type
    /\ Done =>
          LET c == collect_feature_scopes_and_types(Respelled(datasets))
              g == ingest_cross_refs(Respelled(datasets), c.feat_scope, c.id_type)
          IN  {GroupKeys(gid) : gid \in DOMAIN groups}
                  = PartitionOf(g.alias_edges, g.rel_edges, c.id_type, g.inferred_type)

\* A result with a group that joins a dataset's own identifier to a registry
\* identifier, from an input with a relation or an unclassified record next
\* to the alias.
C24_Witness ==
    /\ Done
    /\ \E gid \in DOMAIN groups : \E k1 \in GroupKeys(gid), k2 \in GroupKeys(gid) :
          k1[1] \in REGISTRY_NS /\ k2[1] \notin REGISTRY_NS
    /\ Len(rel_edges) + Len(unknown_edges) >= 1
    /\ Respelled(datasets) # datasets

(***************************************************************************)
(* Inferred types of relation targets                                      *)
(***************************************************************************)
\* The rules of the table as the specification names them.
ConstantRule ==
    ( <<"p", "r", "o", "t", "e", "i", "n", "_", "i", "d">>           :> s_protein ) @@
    ( <<"u", "n", "i", "p", "r", "o", "t", "k", "b", "/", "s", "w", "i", "s", "s", "-", "p", "r", "o", "t">> :> s_protein ) @@
    ( <<"k", "e", "g", "g", ".", "c", "o", "m", "p", "o", "u", "n", "d">>        :> s_metabolite ) @@
    ( <<"p", "a", "r", "e", "n", "t">>               :> s_dna ) @@
    ( <<"p", "r", "o", "d", "u", "c", "t", "_", "l", "a", "b", "e", "l">>        :> s_protein ) @@
    ( s_product               :> s_protein )

IdentityRule == {s_modification, s_contains}

\* The type a relation of namespace n infers from the source type t.
RuleType(n, t) ==
    IF n \in DOMAIN ConstantRule THEN ConstantRule[n]
    ELSE IF n \in IdentityRule THEN t
    ELSE IF n = s_produced_by THEN (IF t = s_gene THEN s_protein ELSE s_unknown)
    ELSE s_unknown

\* The rules hold for every call of derive_type and for every relation
\* record ingested: the inferred type is the rule's, applied to the explicit
\* type of the source key, and it is recorded for the target key exactly when
\* that key has no explicit type and the inferred type is not unknown.
RulesApplied ==
    /\ call.op = "derive_type" =>
          call.out = Return(RuleType(Lower(call.args[1]), call.args[2]))
    /\ call.op = "ingest_relation" =>
          LET res == call.out.ret
              n   == NormNs(call.args[2].namespace)
              k_src == res.rel_edges[1][1]
              k_tgt == res.rel_edges[1][3]
              t   == RuleType(n, GetOr(res.id_type, k_src, s_unknown))
          IN  /\ Len(res.rel_edges) = 1
              /\ k_src[2] = Strip(call.args[2].src)
              /\ k_tgt[2] = Strip(call.args[2].target)
              /\ res.inferred_type =
                    IF k_tgt \notin DOMAIN res.id_type /\ t # s_unknown
                    THEN Put(EmptyDict, k_tgt, t)
                    ELSE EmptyDict

\* C26: the module that holds the rule table loads, every rule being a
\* constant type, the identity or the produced_by conditional; for a relation
\* record with namespace ns the target's inferred type is the rule for ns
\* applied to the source's explicit type (unknown when it has none), a
\* namespace without a rule infers unknown, and the inferred type is recorded
\* only when the target has no explicit type and the inferred type is not
\* unknown.
C26_InferredTypeFollowsTheRuleTable ==
    /\ call.op = "import" => call.out.raised = ""
    /\ RulesApplied

(***************************************************************************)
(* Datasets without column metadata                                        *)
(***************************************************************************)
\* od has a name, a list of feature metadata and a list of cross-references,
\* and no column metadata: the attribute is absent or None.
LacksColumnMeta(od) ==
    /\ {"name", "feature_meta", "cross_ref"} \subseteq DOMAIN od
    /\ "column_meta" \in DOMAIN od => ToString(od.column_meta) = ToString(None)

\* C27: match_references raises no error for a dataset that supplies a name,
\* feature metadata and cross-references but no column metadata.
C27_NoColumnMetadataIsNoError ==
    (\E d \in 1..Len(datasets) : LacksColumnMeta(datasets[d])) =>
        /\ pc # "raised"
        /\ call.op # "match_references"

(***************************************************************************)
(* Orderings of the input                                                  *)
(***************************************************************************)
Reverse(q) == [i \in 1..Len(q) |-> q[Len(q) + 1 - i]]

\* The same datasets in the opposite order, each with its cross-reference
\* records in the opposite order.
Reordered(ods) == Reverse([d \in 1..Len(ods) |-> [ods[d] EXCEPT !.cross_ref = Reverse(@)]])

\* The type of a group of keys S under the hints idt and inf: the one known
\* type among its members, or unknown.
TypeOfKeys(S, idt, inf) ==
    LET known == {KnownType(m, idt, inf) : m \in S} \ {None}
    IN  IF Cardinality(known) = 1 THEN CHOOSE t \in known : TRUE ELSE s_unknown

\* C28: the partition into groups and the resolved types of the result are
\* those that the same datasets and records give in another order; the
\* inferred type of an identifier does not depend on the record read last.
C28_OrderOfInputIsIrrelevant ==
    Done =>
        LET c == collect_feature_scopes_and_types(Reordered(datasets))
            g == ingest_cross_refs(Reordered(datasets), c.feat_scope, c.id_type)
        IN  /\ g.inferred_type = inferred_type
            /\ {GroupKeys(gid) : gid \in DOMAIN groups}
                  = PartitionOf(g.alias_edges, g.rel_edges, c.id_type, g.inferred_type)
            /\ \A gid \in DOMAIN groups : \A n \in groups[gid] :
                  n.type = TypeOfKeys(GroupKeys(gid), c.id_type, g.inferred_type)

====
